---- MODULE Spec2Model ----
(***************************************************************************)
(* Attendance tracker: the absence alerting engine and the leave and       *)
(* notification operations of services/storageService.ts, the day          *)
(* classifier of components/UserDashboardView.tsx, the admin reports of    *)
(* components/DashboardView.tsx and components/SettingsView.tsx, and the   *)
(* session, timer and attendance flow of App (components/HistoryView.tsx), *)
(* over one shared document store.                                         *)
(*                                                                         *)
(* Time is in milliseconds since the epoch, as Date.now() gives it.  A     *)
(* calendar date string "YYYY-MM-DD" is written as its day number since    *)
(* 1970-01-01 (day 0 is a Thursday), a display date of locale ar-EG as the *)
(* pair <<"ar-EG", local day number>>, an Arabic weekday name as its       *)
(* English abbreviation, and a piece of text (an employee name, a          *)
(* notification message) as the sequence of its characters, the fixed      *)
(* wording of a message template being one token per phrase.               *)
(***************************************************************************)
EXTENDS Integers, Sequences, FiniteSets, TLC

VARIABLES
    now,                 \* the wall clock, Date.now()
    tz,                  \* the browser's zone: local time minus UTC, in minutes
    employees,           \* collection employees_v1
    records,             \* collection attendance_records_v1
    leaves,              \* collection leaves_v1
    schedules,           \* collection schedules_v1
    calendarEvents,      \* collection calendar_events_v1
    notifications,       \* collection notifications_v1
    inv,                 \* the invocations of checkAndGenerateAbsenceAlerts: position and locals
    hist,                \* the completed invocations, oldest first
    epoch,               \* number of writes so far to employees and records
    missingCheckoutAlert, \* UserDashboardView's banner state, per worker session
    screen,              \* what the views last computed: a worker's monthly summary
                         \* (UserDashboardView) and the admin report (DashboardView)
    firestore,           \* "up" while requests to the document store succeed, "down"
                         \* while they fail (getDocs and setDoc reject)
    session,             \* App's isAuthenticated and userRole, and the interval of the
                         \* automatic absence check
    app,                 \* per worker's device, App's pendingType, verificationMethod
                         \* and distanceToWork
    local                \* a collection kept in localStorage (the branch taken when
                         \* Firestore is not in use) and the saveDocument calls on it

vars == <<now, tz, employees, records, leaves, schedules, calendarEvents,
          notifications, inv, hist, epoch, missingCheckoutAlert, screen, firestore,
          session, app, local>>

storeVars == <<employees, records, leaves, schedules, calendarEvents>>

----------------------------------------------------------------------------
(* Program constants *)

MsPerMinute == 60000
MsPerDay == 86400000
AbsenceGraceMinutes == 30
NotificationLimit == 50
RecordLimit == 500

(* Bounds of the model *)

MaxRuns == 2          \* invocations of the absence check in one behaviour
MaxMsDrift == 1       \* single milliseconds the clock may advance past a sampled instant
MaxStoreWrites == 1   \* writes to employees and records in one behaviour

----------------------------------------------------------------------------
(* Generic helpers *)

Min(S) == CHOOSE x \in S : \A y \in S : x <= y

Range(seq) == {seq[i] : i \in 1..Len(seq)}

\* String.prototype.includes on texts written as sequences
Includes(text, part) ==
    \E i \in 1..(Len(text) - Len(part) + 1) :
        SubSeq(text, i, i + Len(part) - 1) = part

Take(seq, n) == SubSeq(seq, 1, IF Len(seq) < n THEN Len(seq) ELSE n)

----------------------------------------------------------------------------
(* Dates (JavaScript Date in the browser's zone) *)

WeekdayNames == <<"Sun", "Mon", "Tue", "Wed", "Thu", "Fri", "Sat">>

\* Date.prototype.getTimezoneOffset: UTC minus local, in minutes
getTimezoneOffset == 0 - tz

\* the local wall-clock reading of instant t, as milliseconds
LocalMs(t) == t - getTimezoneOffset * MsPerMinute

\* toISOString().slice(0, 10) / .split('T')[0]: the UTC calendar date of t
toISODate(t) == t \div MsPerDay

\* new Date(t - offset).toISOString().slice(0, 10)
localISODate(t) == toISODate(t - getTimezoneOffset * MsPerMinute)

\* setHours(0,0,0,0): local midnight of t's local day
setHoursMidnight(t) == (LocalMs(t) \div MsPerDay) * MsPerDay + getTimezoneOffset * MsPerMinute

\* toLocaleDateString('ar-EG', { weekday: 'long' })
weekdayLong(t) == WeekdayNames[(((LocalMs(t) \div MsPerDay) + 4) % 7) + 1]

\* toLocaleDateString('ar-EG')
toLocaleDateString(t) == <<"ar-EG", LocalMs(t) \div MsPerDay>>

\* getHours() * 60 + getMinutes()
minutesOfDay(t) == (LocalMs(t) % MsPerDay) \div MsPerMinute

\* new Date("YYYY-MM-DD"): a date-only string is parsed as UTC midnight
parseDate(d) == d * MsPerDay

\* shift.start.split(':').map(Number) ; h * 60 + m
timeToMin(hm) == hm[1] * 60 + hm[2]

----------------------------------------------------------------------------
(* Document ids *)

\* Date.now().toString(): rnd = -1; Date.now().toString() + five random digits: rnd >= 0
PlainId(ms) == [ms |-> ms, rnd |-> 0 - 1]
RandomId(ms, r) == [ms |-> ms, rnd |-> r]

\* Order of document ids as strings.  Date.now() has thirteen digits for
\* every date from 2001 to 2286, so two ids compare by their time first and
\* a plain id is a proper prefix of (so sorts before) a suffixed one.
DocIdLess(a, b) == a.ms < b.ms \/ (a.ms = b.ms /\ a.rnd < b.rnd)

\* parseInt(id): a suffixed id has eighteen digits and is greater than
\* every plain id
ParseIntLess(a, b) ==
    \/ a.rnd < 0 /\ b.rnd >= 0
    \/ (a.rnd < 0) = (b.rnd < 0) /\ DocIdLess(a, b)

----------------------------------------------------------------------------
(* The persistence layer (storageService.ts, helpers) *)

\* services/firebase.ts: isFirebaseEnabled = () => true
isFirebaseEnabled == TRUE

\* Firestore setDoc(doc(db, collection, id), data): a collection is a map
\* from document id to document, read back in ascending order of id
SetDoc(coll, id, data) ==
    IF \E i \in 1..Len(coll) : coll[i].id = id
    THEN [i \in 1..Len(coll) |-> IF coll[i].id = id THEN data ELSE coll[i]]
    ELSE SelectSeq(coll, LAMBDA d : DocIdLess(d.id, id))
            \o <<data>>
            \o SelectSeq(coll, LAMBDA d : DocIdLess(id, d.id))

\* the localStorage branch: findIndex, then replace in place or push
LocalPut(coll, id, data) ==
    IF \E i \in 1..Len(coll) : coll[i].id = id
    THEN LET index == Min({i \in 1..Len(coll) : coll[i].id = id})
         IN  [coll EXCEPT ![index] = data]
    ELSE Append(coll, data)

saveDocument(coll, id, data) ==
    IF isFirebaseEnabled THEN SetDoc(coll, id, data) ELSE LocalPut(coll, id, data)

\* the saveDocument calls that can be in progress on the localStorage collection
LocalCalls == {"call1", "call2"}

\* no item under the collection's key, and no call made.  storage is <<>>
\* while localStorage.getItem gives null and <<list>> once a list is stored;
\* initial keeps the list that was stored when the first call was made
NoLocal ==
    [storage |-> <<>>, initial |-> <<>>,
     calls |-> [c \in LocalCalls |->
                  [pc |-> "idle", list |-> <<>>, docId |-> 0, data |-> <<>>,
                   overlaps |-> {}]]]

\* getFromStorage, localStorage branch: data ? JSON.parse(data) : defaultData
localGetFromStorage(storage, defaultData) ==
    IF storage = <<>> THEN defaultData ELSE storage[1]

\* saveDocument, localStorage branch, up to its await: getFromStorage has read
\* the list, the rest of the call waits for the promise to resolve
localSaveStart(c, docId, data) ==
    /\ local.calls[c].pc = "idle"
    /\ local' = [local EXCEPT
                   !.calls[c] = [pc |-> "awaiting",
                                 list |-> localGetFromStorage(local.storage, <<>>),
                                 docId |-> docId, data |-> data,
                                 overlaps |-> {d \in LocalCalls :
                                                 local.calls[d].pc = "awaiting"}]]
    /\ UNCHANGED <<firestore, session, app, now, tz, storeVars, notifications, inv, hist,
                   epoch, missingCheckoutAlert, screen>>

\* saveDocument, localStorage branch, after its await: findIndex on the list
\* it read, replace or push, localStorage.setItem of that list
localSaveFinish(c) ==
    /\ local.calls[c].pc = "awaiting"
    /\ local' = [local EXCEPT
                   !.storage = << LocalPut(local.calls[c].list,
                                           local.calls[c].docId, local.calls[c].data) >>,
                   !.calls[c].pc = "done"]
    /\ UNCHANGED <<firestore, session, app, now, tz, storeVars, notifications, inv, hist,
                   epoch, missingCheckoutAlert, screen>>

\* getFromStorage for a list collection: an empty snapshot gives the default,
\* and so does a getDocs that throws (the catch returns defaultData)
getFromStorage(coll, defaultData) ==
    IF isFirebaseEnabled
    THEN IF firestore = "down" \/ coll = <<>> THEN defaultData ELSE coll
    ELSE coll

\* a save that creates the notification only if none with the same title,
\* message and date is stored
saveNotificationIfAbsent(coll, note) ==
    IF \E i \in 1..Len(coll) :
          /\ coll[i].title = note.title
          /\ coll[i].message = note.message
          /\ coll[i].date = note.date
    THEN coll
    ELSE saveDocument(coll, note.id, note)

saveNotification(coll, note) == saveDocument(coll, note.id, note)

\* query(collection, limit(n)): the first n documents in order of id
LimitQuery(coll, n) == IF isFirebaseEnabled THEN Take(coll, n) ELSE coll

\* Array.prototype.sort is stable: an element goes after the elements that
\* order before it and after the earlier elements that order the same.
\* `ranked` holds <<position in the result, index in seq>> for every index.
PlaceAll(seq, ranked) ==
    [k \in 1..Len(seq) |-> seq[(CHOOSE p \in ranked : p[1] = k)[2]]]

RankByIdDesc(seq, i) ==
    Cardinality({j \in 1..Len(seq) :
        \/ ParseIntLess(seq[i].id, seq[j].id)
        \/ ~ParseIntLess(seq[j].id, seq[i].id) /\ j < i}) + 1

\* Array.prototype.sort((a, b) => parseInt(b.id) - parseInt(a.id))
SortByIdDesc(seq) ==
    PlaceAll(seq, {<<RankByIdDesc(seq, i), i>> : i \in 1..Len(seq)})

RankByTimestampAsc(seq, i) ==
    Cardinality({j \in 1..Len(seq) :
        \/ seq[j].timestamp < seq[i].timestamp
        \/ seq[j].timestamp = seq[i].timestamp /\ j < i}) + 1

\* sort((a, b) => a.timestamp - b.timestamp)
SortByTimestampAsc(seq) ==
    PlaceAll(seq, {<<RankByTimestampAsc(seq, i), i>> : i \in 1..Len(seq)})

RankByTimestampDesc(seq, i) ==
    Cardinality({j \in 1..Len(seq) :
        \/ seq[j].timestamp > seq[i].timestamp
        \/ seq[j].timestamp = seq[i].timestamp /\ j < i}) + 1

\* orderBy('timestamp', 'desc') / sort((a, b) => b.timestamp - a.timestamp)
SortByTimestampDesc(seq) ==
    PlaceAll(seq, {<<RankByTimestampDesc(seq, i), i>> : i \in 1..Len(seq)})

getNotifications == SortByIdDesc(LimitQuery(notifications, NotificationLimit))

getRecords(limitCount) == Take(SortByTimestampDesc(records), limitCount)

getCalendarEvents == getFromStorage(calendarEvents, <<>>)

getLeaveRequests == getFromStorage(leaves, <<>>)

\* the seeded schedule of getWorkSchedules: two shifts, Sunday to Thursday
DefaultSchedules ==
    << [id |-> PlainId(1),
        shifts |-> << [start |-> <<8, 0>>], [start |-> <<13, 0>>] >>,
        days |-> {"Sun", "Mon", "Tue", "Wed", "Thu"}] >>

getWorkSchedules == getFromStorage(schedules, DefaultSchedules)

\* the seeded administrator of getEmployees
DefaultEmployees == << [id |-> PlainId(1), name |-> <<"m">>, status |-> "Active"] >>

\* getEmployees returns the stored employees, or seeds the administrator
getEmployees == IF employees = <<>> THEN DefaultEmployees ELSE employees

employeesAfterGet ==
    IF employees = <<>>
    THEN saveDocument(employees, DefaultEmployees[1].id, DefaultEmployees[1])
    ELSE employees

\* UserDashboardView, lines 38-46: yesterday's records of the worker, oldest
\* first
yesterdayRecords(recs, workerName, t) ==
    LET yesterdayStart == setHoursMidnight(t - MsPerDay)
        yesterdayEnd == yesterdayStart + 86400000
    IN  SortByTimestampAsc(
            SelectSeq(recs, LAMBDA r : /\ r.workerName = workerName
                                       /\ r.timestamp >= yesterdayStart
                                       /\ r.timestamp < yesterdayEnd))

----------------------------------------------------------------------------
(* checkAndGenerateAbsenceAlerts (storageService.ts): helpers *)

Procs == {"timer", "manual"}

\* Math.random().toString().substr(2, 5): the values the model draws
RandomSuffixes == {11111, 22222}

AbsenceTitle == "absence alert"

\* `الموظف ${emp.name} لم يسجل الحضور اليوم (${label}) حتى الآن.`
AbsenceMessage(name, label) ==
    <<"The employee ">> \o name \o <<" has not checked in today (", label, ") so far.">>

\* calendarEvents.find(e => e.date === todayStr)?.type
todayEventType(events, todayStr) ==
    LET hits == {i \in 1..Len(events) : events[i].date = todayStr}
    IN  IF hits = {} THEN "NONE" ELSE events[Min(hits)].type

\* allSchedules.filter(s => s.days.includes(dayName))
todaySchedulesOf(allSchedules, dayName) ==
    SelectSeq(allSchedules, LAMBDA s : dayName \in s.days)

RECURSIVE FlattenStarts(_)
FlattenStarts(scheds) ==
    IF scheds = <<>> THEN <<>>
    ELSE [i \in 1..Len(Head(scheds).shifts) |-> timeToMin(Head(scheds).shifts[i].start)]
            \o FlattenStarts(Tail(scheds))

\* lines 500-510: the shift starts of today's schedules, or 08:00
activeShiftStartTimesOf(todaySchedules) ==
    IF Len(todaySchedules) > 0 THEN FlattenStarts(todaySchedules) ELSE <<8 * 60>>

\* a grace test that already fires at exactly start + 30
pastShiftsInclusive(starts, currentMinutes) ==
    SelectSeq(starts, LAMBDA start : currentMinutes >= (start + AbsenceGraceMinutes))

\* activeShiftStartTimes.filter(start => currentMinutes > (start + 30))
pastShiftsOf(starts, currentMinutes) ==
    SelectSeq(starts, LAMBDA start : currentMinutes > (start + AbsenceGraceMinutes))

\* the names with a CHECK_IN record at or after the start of today
presentEmployeeNames(recs, startOfDay) ==
    {recs[i].workerName :
        i \in {j \in 1..Len(recs) : recs[j].timestamp >= startOfDay /\ recs[j].type = "CHECK_IN"}}

\* leaves.some(l => ... new Date(l.startDate) <= new Date() && new Date(l.endDate) >= new Date())
isOnLeave(lvs, name, t) ==
    \E i \in 1..Len(lvs) :
        /\ lvs[i].employeeName = name
        /\ lvs[i].status = "Approved"
        /\ parseDate(lvs[i].startDate) <= t
        /\ parseDate(lvs[i].endDate) >= t

\* notifications.some(n => n.title === ... && n.message.includes(emp.name) && n.date === dateStrDisplay)
alreadyNotified(notes, name, dateStrDisplay) ==
    \E i \in 1..Len(notes) :
        /\ notes[i].title = AbsenceTitle
        /\ Includes(notes[i].message, name)
        /\ notes[i].date = dateStrDisplay

\* one iteration of the loop over employees reaches saveNotification
NeedsAlert(l, i, t) ==
    /\ l.employees[i].name \notin presentEmployeeNames(l.records, l.startOfDay)
    /\ ~isOnLeave(l.leaves, l.employees[i].name, t)
    /\ ~alreadyNotified(l.notifications, l.employees[i].name, l.dateStrDisplay)

\* a loop that returns the number of employees it went through
ContinueLoopCountingChecked(l, from, t, r) ==
    LET todo == {i \in from..Len(l.employees) : NeedsAlert(l, i, t)}
    IN  IF todo = {}
        THEN [l EXCEPT !.pc = "done", !.idx = Len(l.employees) + 1,
                       !.pending = <<>>, !.ret = Len(l.employees)]
        ELSE [l EXCEPT !.pc = "save", !.idx = Min(todo),
                       !.pending = << [id |-> RandomId(t, r),
                                       title |-> AbsenceTitle,
                                       message |-> AbsenceMessage(l.employees[Min(todo)].name,
                                                     IF l.isExtraWorkDay THEN "extra workday"
                                                                         ELSE l.dayName),
                                       date |-> l.dateStrDisplay] >>]

\* The loop runs without suspension from employee `from` up to the next
\* `await saveNotification`, or to `return alertsGenerated`.
ContinueLoop(l, from, t, r) ==
    LET todo == {i \in from..Len(l.employees) : NeedsAlert(l, i, t)}
    IN  IF todo = {}
        THEN [l EXCEPT !.pc = "done", !.idx = Len(l.employees) + 1,
                       !.pending = <<>>, !.ret = l.alertsGenerated]
        ELSE [l EXCEPT !.pc = "save", !.idx = Min(todo),
                       !.pending = << [id |-> RandomId(t, r),
                                       title |-> AbsenceTitle,
                                       message |-> AbsenceMessage(l.employees[Min(todo)].name,
                                                     IF l.isExtraWorkDay THEN "extra workday"
                                                                         ELSE l.dayName),
                                       date |-> l.dateStrDisplay] >>]

IdleLocals ==
    [pc |-> "idle", todayStr |-> 0, startOfDay |-> 0, dayName |-> "",
     todayEvent |-> "NONE", allSchedulesLen |-> 0, todaySchedules |-> <<>>,
     isExtraWorkDay |-> FALSE, employees |-> <<>>, records |-> <<>>, leaves |-> <<>>,
     notifications |-> <<>>, dateStrDisplay |-> <<>>, currentMinutes |-> 0,
     activeShiftStartTimes |-> <<>>, idx |-> 0, pending |-> <<>>,
     alertsGenerated |-> 0, ret |-> 0 - 1, saved |-> <<>>,
     calledAfter |-> 0, overlapped |-> FALSE, epochAtCall |-> 0, eligibleAtRead |-> {},
     owedAtRead |-> {}, graceTested |-> FALSE, owedCheckoutAtCall |-> {},
     rejected |-> FALSE, minutesAtCall |-> 0, owedAtCall |-> {}]

----------------------------------------------------------------------------
(* What the specification calls the condition of an absence alert; used to *)
(* state the claims, not by the program                                     *)

LocalDay(t) == LocalMs(t) \div MsPerDay

HolidayOn(day) ==
    \E i \in 1..Len(calendarEvents) :
        calendarEvents[i].date = day /\ calendarEvents[i].type = "HOLIDAY"

ExtraWorkdayOn(day) ==
    \E i \in 1..Len(calendarEvents) :
        calendarEvents[i].date = day /\ calendarEvents[i].type = "EXTRA_WORKDAY"

ScheduledOn(day) ==
    \E i \in 1..Len(getWorkSchedules) :
        WeekdayNames[((day + 4) % 7) + 1] \in getWorkSchedules[i].days

WorkdayOn(day) == ~HolidayOn(day) /\ (ScheduledOn(day) \/ ExtraWorkdayOn(day))

\* the shift starts that apply on a day: those of the schedules listing its
\* weekday, or the implicit 08:00
ShiftStartsOn(day) ==
    Range(activeShiftStartTimesOf(
            todaySchedulesOf(getWorkSchedules, WeekdayNames[((day + 4) % 7) + 1])))

GraceElapsedAt(t) ==
    \E start \in ShiftStartsOn(LocalDay(t)) : minutesOfDay(t) > start + AbsenceGraceMinutes

HasCheckInOn(name, day) ==
    \E i \in 1..Len(records) :
        /\ records[i].workerName = name
        /\ records[i].type = "CHECK_IN"
        /\ LocalDay(records[i].timestamp) = day

\* an Approved leave whose calendar dates include the day, both ends inclusive
ApprovedLeaveCovers(name, day) ==
    \E i \in 1..Len(leaves) :
        /\ leaves[i].employeeName = name
        /\ leaves[i].status = "Approved"
        /\ leaves[i].startDate <= day
        /\ day <= leaves[i].endDate

\* the stored absence notifications dated `day` that were generated for `name`
AbsenceNotesFor(name, day) ==
    {i \in 1..Len(notifications) :
        /\ notifications[i].title = AbsenceTitle
        /\ notifications[i].date = <<"ar-EG", day>>
        /\ \E label \in {"extra workday"} \cup Range(WeekdayNames) :
               notifications[i].message = AbsenceMessage(name, label)}

ActiveNames == {employees[i].name : i \in {j \in 1..Len(employees) : employees[j].status = "Active"}}

\* the employees owed an absence alert at instant t
OwedAlertAt(t) ==
    IF WorkdayOn(LocalDay(t)) /\ GraceElapsedAt(t)
    THEN {name \in ActiveNames :
            /\ ~HasCheckInOn(name, LocalDay(t))
            /\ ~ApprovedLeaveCovers(name, LocalDay(t))}
    ELSE {}

MissingCheckoutTitle == "missing checkout"

\* the notifications among `notes` that report a missing check-out of `name`
MissingCheckoutNotesFor(notes, name) ==
    {i \in 1..Len(notes) :
        notes[i].title = MissingCheckoutTitle /\ Includes(notes[i].message, name)}

\* the employees owed a missing-checkout notification at instant t: the last
\* record of yesterday is a CHECK_IN and no such notification is stored
OwedMissingCheckoutAt(t) ==
    {name \in ActiveNames :
        LET empRecs == yesterdayRecords(records, name, t)
        IN  /\ Len(empRecs) > 0
            /\ empRecs[Len(empRecs)].type = "CHECK_IN"
            /\ MissingCheckoutNotesFor(notifications, name) = {}}

----------------------------------------------------------------------------
(* checkAndGenerateAbsenceAlerts: one action per stretch between awaits *)

Running(q) == inv[q].pc \notin {"idle", "done"}

Summary(p, l) ==
    [proc |-> p, ret |-> l.ret, saved |-> l.saved, calledAfter |-> l.calledAfter,
     overlapped |-> l.overlapped, epochAtCall |-> l.epochAtCall, epochAtEnd |-> epoch,
     todayStr |-> l.todayStr, dayAtEnd |-> LocalDay(now), eligibleAtRead |-> l.eligibleAtRead,
     owedAtRead |-> l.owedAtRead, graceTested |-> l.graceTested,
     currentMinutes |-> l.currentMinutes, activeShiftStartTimes |-> l.activeShiftStartTimes,
     owedCheckoutAtCall |-> l.owedCheckoutAtCall, rejected |-> l.rejected,
     minutesAtCall |-> l.minutesAtCall, owedAtCall |-> l.owedAtCall]

\* an awaited request throws and nothing catches it: the promise of
\* checkAndGenerateAbsenceAlerts rejects, no count is returned
Rejects(l) == [l EXCEPT !.pc = "done", !.rejected = TRUE]

\* the invocation's locals become l; a finished invocation is logged
Step(p, l) ==
    /\ inv' = [inv EXCEPT ![p] = l]
    /\ hist' = IF l.pc = "done" THEN Append(hist, Summary(p, l)) ELSE hist

\* lines 467-474: the dates of today, then await getCalendarEvents()
StartInvocation(p) ==
    /\ ~Running(p)
    /\ Len(hist) + Cardinality({q \in Procs : Running(q)}) < MaxRuns
    /\ inv' = [q \in Procs |->
                 IF q = p
                 THEN [IdleLocals EXCEPT
                         !.pc = "events",
                         !.todayStr = localISODate(now),
                         !.startOfDay = setHoursMidnight(now),
                         !.dayName = weekdayLong(now),
                         !.calledAfter = Len(hist),
                         !.overlapped = \E o \in Procs \ {p} : Running(o),
                         !.epochAtCall = epoch,
                         !.owedCheckoutAtCall = OwedMissingCheckoutAt(now),
                         !.minutesAtCall = minutesOfDay(now),
                         !.owedAtCall = {name \in ActiveNames :
                                           /\ ~HasCheckInOn(name, LocalDay(now))
                                           /\ ~ApprovedLeaveCovers(name, LocalDay(now))}]
                 ELSE IF Running(q) THEN [inv[q] EXCEPT !.overlapped = TRUE]
                 ELSE inv[q]]

\* an invocation starts: the timer's run or a click on "check absence"
Call(p) ==
    /\ StartInvocation(p)
    /\ UNCHANGED <<local, firestore, session, app, now, tz, storeVars, notifications, hist, epoch,
                   missingCheckoutAlert, screen>>

\* lines 474-479: the events arrive; a holiday returns 0
ReadEvents(p) ==
    /\ inv[p].pc = "events"
    /\ LET t == todayEventType(getCalendarEvents, inv[p].todayStr)
       IN  Step(p, IF t = "HOLIDAY"
                   THEN [inv[p] EXCEPT !.pc = "done", !.todayEvent = t, !.ret = 0]
                   ELSE [inv[p] EXCEPT !.pc = "schedules", !.todayEvent = t])
    /\ UNCHANGED <<local, firestore, session, app, now, tz, storeVars, notifications, epoch, missingCheckoutAlert,
                   screen>>

\* lines 479-488: the schedules arrive; a day off returns 0
ReadSchedules(p) ==
    /\ inv[p].pc = "schedules"
    /\ LET allSchedules == getWorkSchedules
           todaySchedules == todaySchedulesOf(allSchedules, inv[p].dayName)
           isRegularWorkDay == Len(allSchedules) = 0 \/ Len(todaySchedules) > 0
           isExtraWorkDay == inv[p].todayEvent = "EXTRA_WORKDAY"
       IN  Step(p, IF ~isRegularWorkDay /\ ~isExtraWorkDay
                   THEN [inv[p] EXCEPT !.pc = "done", !.ret = 0,
                                       !.allSchedulesLen = Len(allSchedules),
                                       !.todaySchedules = todaySchedules,
                                       !.isExtraWorkDay = isExtraWorkDay]
                   ELSE [inv[p] EXCEPT !.pc = "employees", !.alertsGenerated = 0,
                                       !.allSchedulesLen = Len(allSchedules),
                                       !.todaySchedules = todaySchedules,
                                       !.isExtraWorkDay = isExtraWorkDay])
    /\ UNCHANGED <<local, firestore, session, app, now, tz, storeVars, notifications, epoch, missingCheckoutAlert,
                   screen>>

\* the whole list, whatever the status
everyEmployeeOf(allEmployees) == allEmployees

\* allEmployees.filter(e => e.status === 'Active')
activeEmployeesOf(allEmployees) == SelectSeq(allEmployees, LAMBDA e : e.status = "Active")

\* lines 488-492: the employees arrive (seeding the administrator if none)
ReadEmployees(p) ==
    /\ inv[p].pc = "employees"
    /\ IF firestore = "down"
       THEN /\ Step(p, Rejects(inv[p]))
            /\ UNCHANGED <<employees, epoch>>
       ELSE /\ Step(p, [inv[p] EXCEPT
                          !.pc = "records",
                          !.employees = activeEmployeesOf(getEmployees)])
            /\ employees' = employeesAfterGet
            /\ epoch' = IF employees = <<>> THEN epoch + 1 ELSE epoch
    /\ UNCHANGED <<local, firestore, session, app, now, tz, records, leaves, schedules, calendarEvents, notifications,
                   missingCheckoutAlert,
                   screen>>

\* lines 492-494: the recent records arrive
ReadRecords(p) ==
    /\ inv[p].pc = "records"
    /\ Step(p, IF firestore = "down"
                THEN Rejects(inv[p])
                ELSE [inv[p] EXCEPT !.pc = "leaves", !.records = getRecords(RecordLimit)])
    /\ UNCHANGED <<local, firestore, session, app, now, tz, storeVars, notifications, epoch, missingCheckoutAlert,
                   screen>>

\* lines 494-495: the leave requests arrive
ReadLeaves(p) ==
    /\ inv[p].pc = "leaves"
    /\ Step(p, [inv[p] EXCEPT !.pc = "notifications", !.leaves = getLeaveRequests])
    /\ UNCHANGED <<local, firestore, session, app, now, tz, storeVars, notifications, epoch, missingCheckoutAlert,
                   screen>>

\* lines 495-536: the notifications arrive; the grace period is tested and
\* the loop runs up to its first saveNotification
ReadNotifications(p) ==
    /\ inv[p].pc = "notifications"
    /\ \E r \in RandomSuffixes :
         LET l == [inv[p] EXCEPT
                     !.notifications = getNotifications,
                     !.dateStrDisplay = toLocaleDateString(now),
                     !.currentMinutes = minutesOfDay(now),
                     !.activeShiftStartTimes = activeShiftStartTimesOf(inv[p].todaySchedules),
                     !.graceTested = TRUE,
                     !.owedAtRead = OwedAlertAt(now),
                     !.eligibleAtRead = {n \in OwedAlertAt(now) :
                                           AbsenceNotesFor(n, LocalDay(now)) = {}}]
         IN  Step(p, IF firestore = "down"
                     THEN Rejects(inv[p])
                     ELSE IF Len(pastShiftsOf(l.activeShiftStartTimes, l.currentMinutes)) > 0
                     THEN ContinueLoop(l, 1, now, r)
                     ELSE [l EXCEPT !.pc = "done", !.ret = l.alertsGenerated])
    /\ UNCHANGED <<local, firestore, session, app, now, tz, storeVars, notifications, epoch, missingCheckoutAlert,
                   screen>>

\* lines 536-548: the notification is written, the count incremented and the
\* loop runs on to its next saveNotification or to the return
Save(p) ==
    /\ inv[p].pc = "save"
    /\ IF firestore = "down"
       THEN /\ Step(p, Rejects(inv[p]))
            /\ UNCHANGED notifications
       ELSE /\ notifications' = saveNotification(notifications, inv[p].pending[1])
            /\ \E r \in RandomSuffixes :
                 Step(p, ContinueLoop([inv[p] EXCEPT
                                         !.alertsGenerated = inv[p].alertsGenerated + 1,
                                         !.saved = Append(inv[p].saved, inv[p].pending[1])],
                                      inv[p].idx + 1, now, r))
    /\ UNCHANGED <<local, firestore, session, app, now, tz, storeVars, epoch, missingCheckoutAlert,
                   screen>>

----------------------------------------------------------------------------
(* The rest of the program, as far as it writes what the check reads *)

\* DashboardView.toggleEmployeeStatus: saveEmployee({ ...emp, status: newStatus })
toggleEmployeeStatus(i) ==
    /\ i \in 1..Len(employees)
    /\ epoch < MaxStoreWrites
    /\ employees' = saveDocument(employees, employees[i].id,
                        [employees[i] EXCEPT
                           !.status = IF employees[i].status = "Active"
                                      THEN "Inactive" ELSE "Active"])
    /\ epoch' = epoch + 1
    /\ UNCHANGED <<local, firestore, session, app, now, tz, records, leaves, schedules, calendarEvents, notifications,
                   inv, hist, missingCheckoutAlert,
                   screen>>

\* getWorkshopConfig's default: radiusMeters of the workshop, in metres
radiusMeters == 500

\* the geolocation watch of App's effect delivers a position: currentLoc and
\* distanceToWork (calculateDistance to config.center, here in whole metres)
\* are set together
watchPosition(w, dist) ==
    /\ app' = [app EXCEPT ![w].distanceToWork = <<dist>>]
    /\ UNCHANGED <<local, firestore, session, now, tz, storeVars, notifications, inv, hist, epoch,
                   missingCheckoutAlert, screen>>

\* getWorkshopConfig's default: the text of the workshop's QR code
qrCodeValue == "WORKSHOP-SECRET-1"

\* the home screen's buttons can be pressed: none of the three overlays
\* (fixed inset-0 z-50) is rendered over them
HomeShown(w) == ~app[w].showCamera /\ ~app[w].showQR /\ ~app[w].showTypeSelector

\* App.startGPSAttendance: nothing without a current location; otherwise the
\* method is GPS, the type is pending and the camera opens.  flowKind,
\* flowType and scanned keep what the flow in progress has chosen and scanned.
startGPSAttendance(w, type) ==
    /\ app[w].distanceToWork # <<>>
    /\ app' = [app EXCEPT ![w].verificationMethod = "GPS", ![w].pendingType = <<type>>,
                          ![w].showCamera = TRUE,
                          ![w].flowKind = "GPS", ![w].flowType = <<type>>,
                          ![w].scanned = <<>>]
    /\ UNCHANGED <<local, firestore, session, now, tz, storeVars, notifications, inv, hist, epoch,
                   missingCheckoutAlert, screen>>

\* App.startQRAttendance: the type selector opens
startQRAttendance(w) ==
    /\ app' = [app EXCEPT ![w].showTypeSelector = TRUE,
                          ![w].flowKind = "QR", ![w].flowType = <<>>,
                          ![w].scanned = <<>>]
    /\ UNCHANGED <<local, firestore, session, now, tz, storeVars, notifications, inv, hist, epoch,
                   missingCheckoutAlert, screen>>

\* the type selector's close button: setShowTypeSelector(false)
closeTypeSelector(w) ==
    /\ app[w].showTypeSelector
    /\ app' = [app EXCEPT ![w].showTypeSelector = FALSE]
    /\ UNCHANGED <<local, firestore, session, now, tz, storeVars, notifications, inv, hist, epoch,
                   missingCheckoutAlert, screen>>

\* App.handleTypeSelection (QR flow): the type is pending, the selector closes
\* and the scanner opens
handleTypeSelection(w, type) ==
    /\ app' = [app EXCEPT ![w].pendingType = <<type>>, ![w].showTypeSelector = FALSE,
                          ![w].showQR = TRUE, ![w].flowType = <<type>>]
    /\ UNCHANGED <<local, firestore, session, now, tz, storeVars, notifications, inv, hist, epoch,
                   missingCheckoutAlert, screen>>

\* a scan handler that accepts whatever text was decoded
handleAnyScan(w, decodedText) ==
    /\ app' = [app EXCEPT ![w].showQR = FALSE, ![w].verificationMethod = "QR",
                          ![w].showCamera = TRUE, ![w].scanned = <<decodedText>>]
    /\ UNCHANGED <<local, firestore, session, now, tz, storeVars, notifications, inv, hist, epoch,
                   missingCheckoutAlert, screen>>

\* App.handleQRScanSuccess: with the workshop's code the scanner closes, the
\* method is QR and the camera opens; any other text only alerts
handleQRScanSuccess(w, decodedText) ==
    /\ app' = IF decodedText = qrCodeValue
              THEN [app EXCEPT ![w].showQR = FALSE, ![w].verificationMethod = "QR",
                               ![w].showCamera = TRUE, ![w].scanned = <<decodedText>>]
              ELSE [app EXCEPT ![w].scanned = <<decodedText>>]
    /\ UNCHANGED <<local, firestore, session, now, tz, storeVars, notifications, inv, hist, epoch,
                   missingCheckoutAlert, screen>>

\* QRScanner's onClose: setShowQR(false), the pending type stays
closeScanner(w) ==
    /\ app[w].showQR
    /\ app' = [app EXCEPT ![w].showQR = FALSE]
    /\ UNCHANGED <<local, firestore, session, now, tz, storeVars, notifications, inv, hist, epoch,
                   missingCheckoutAlert, screen>>

\* CameraCapture's onClose: the camera closes, the pending type stays
closeCamera(w) ==
    /\ app[w].showCamera
    /\ app' = [app EXCEPT ![w].showCamera = FALSE]
    /\ UNCHANGED <<local, firestore, session, now, tz, storeVars, notifications, inv, hist, epoch,
                   missingCheckoutAlert, screen>>

\* a geofence test that excludes the boundary
isVerifiedInside(verificationMethod, distanceToWork) ==
    IF verificationMethod = "GPS"
    THEN distanceToWork # <<>> /\ distanceToWork[1] < radiusMeters
    ELSE TRUE

\* handlePhotoCaptured's isVerified
isVerifiedOf(verificationMethod, distanceToWork) ==
    IF verificationMethod = "GPS"
    THEN distanceToWork # <<>> /\ distanceToWork[1] <= radiusMeters
    ELSE TRUE

\* App.handlePhotoCaptured: a record with id and timestamp Date.now() is saved
\* with the verdict of the geofence, and the pending type is cleared
handlePhotoCaptured(workerName, pendingType) ==
    /\ epoch < MaxStoreWrites
    /\ records' = saveDocument(records, PlainId(now),
                      [id |-> PlainId(now), workerName |-> workerName,
                       timestamp |-> now, type |-> pendingType,
                       locationVerified |->
                           isVerifiedOf(app[workerName].verificationMethod,
                                        app[workerName].distanceToWork),
                       verificationMethod |-> app[workerName].verificationMethod])
    /\ epoch' = epoch + 1
    /\ app' = [app EXCEPT ![workerName].showCamera = FALSE,
                          ![workerName].pendingType = <<>>]
    /\ UNCHANGED <<local, firestore, session, now, tz, employees, leaves, schedules, calendarEvents, notifications,
                   inv, hist, missingCheckoutAlert,
                   screen>>

\* UserDashboardView, effect on [records, workerName]: a last record of
\* yesterday of type CHECK_IN raises the banner
MissingCheckoutEffect(workerName) ==
    /\ LET empRecs == yesterdayRecords(getRecords(RecordLimit), workerName, now)
       IN  missingCheckoutAlert' =
               IF Len(empRecs) > 0 /\ empRecs[Len(empRecs)].type = "CHECK_IN"
               THEN [missingCheckoutAlert EXCEPT
                       ![workerName] = <<toLocaleDateString(setHoursMidnight(now - MsPerDay))>>]
               ELSE missingCheckoutAlert
    /\ UNCHANGED <<local, firestore, session, app, now, tz, storeVars, notifications, inv, hist, epoch,
                   screen>>

\* the banner's close button: setMissingCheckoutAlert(null)
DismissMissingCheckoutAlert(workerName) ==
    /\ missingCheckoutAlert[workerName] # <<>>
    /\ missingCheckoutAlert' = [missingCheckoutAlert EXCEPT ![workerName] = <<>>]
    /\ UNCHANGED <<local, firestore, session, app, now, tz, storeVars, notifications, inv, hist, epoch,
                   screen>>

\* App's state of the attendance flow at the start: the three overlays closed,
\* no pendingType, verificationMethod 'GPS', distanceToWork null, no flow
NoAttendance ==
    [showCamera |-> FALSE, showQR |-> FALSE, showTypeSelector |-> FALSE,
     pendingType |-> <<>>, verificationMethod |-> "GPS", distanceToWork |-> <<>>,
     flowKind |-> "none", flowType |-> <<>>, scanned |-> <<>>]

\* App before login: useState(false), useState('USER'), no interval; lastRun
\* keeps the instant at which the effect or the interval last called runChecks
NoSession == [isAuthenticated |-> FALSE, userRole |-> "USER", interval |-> <<>>,
              lastRun |-> <<>>]

\* nothing rendered yet, in the worker's session and in the administrator's
\* the browser sessions in which an administrator's DashboardView is mounted
AdminSessions == {"admin1", "admin2"}

NoScreen ==
    [user |-> <<>>, report |-> <<>>, settingsReport |-> <<>>,
     leaves |-> [s \in AdminSessions |-> <<>>], score |-> <<>>]

----------------------------------------------------------------------------
(* UserDashboardView.tsx, useMemo: the worker's monthly summary *)

Max(S) == CHOOSE x \in S : \A y \in S : x >= y

MsPerHour == 3600000
StandardDayHours == 8

\* Hours with one decimal are counted in tenths of an hour.
\* (ms / (1000 * 60 * 60)).toFixed(1): the tenth nearest to the quotient as
\* the floating-point division yields it, the larger one of two equally
\* near.  Computed here on the exact quotient, which gives the same tenth
\* unless the exact quotient lies halfway between two tenths and is no binary
\* fraction (0.35 h is written 0.3); the record lists and the clock samples
\* of the model measure no such duration.
toFixed1(ms) == (ms + MsPerHour \div 20) \div (MsPerHour \div 10)

\* Math.round(ms / (1000 * 60 * 60)): the nearest whole hour, x.5 going up
MathRound(ms) == (ms + MsPerHour \div 2) \div MsPerHour

\* The calendar of the model: the first three months of 1970.
MonthStartDays == <<0, 31, 59>>
MonthLengths == <<31, 28, 31>>

\* Date.prototype.getMonth, getFullYear, toDateString, in the browser's zone
getMonth(t) ==
    IF LocalMs(t) \div MsPerDay < MonthStartDays[2] THEN 0
    ELSE IF LocalMs(t) \div MsPerDay < MonthStartDays[3] THEN 1 ELSE 2

getFullYear(t) == IF LocalMs(t) >= 0 THEN 1970 ELSE 1969

toDateString(t) == LocalMs(t) \div MsPerDay

\* new Date(currentYear, currentMonth, day): local midnight of that day
localDate(month, day) ==
    (MonthStartDays[month + 1] + day - 1) * MsPerDay + getTimezoneOffset * MsPerMinute

\* records.filter(r => same month, same year, r.workerName === workerName)
monthlyRecordsOf(recs, workerName, t) ==
    SelectSeq(recs, LAMBDA r : /\ getMonth(r.timestamp) = getMonth(t)
                               /\ getFullYear(r.timestamp) = getFullYear(t)
                               /\ r.workerName = workerName)

\* new Set(monthlyRecords.map(r => new Date(r.timestamp).toDateString()))
uniqueDaysOf(recs) == {toDateString(recs[i].timestamp) : i \in 1..Len(recs)}

\* monthlyRecords.filter(r => toDateString equal), then sort by timestamp
dayRecordsOf(monthlyRecords, date) ==
    SortByTimestampAsc(
        SelectSeq(monthlyRecords,
                  LAMBDA r : toDateString(r.timestamp) = toDateString(date)))

\* dayRecords.find(r => r.type === CHECK_IN), as a list of at most one
checkInOf(dayRecs) ==
    LET hits == {i \in 1..Len(dayRecs) : dayRecs[i].type = "CHECK_IN"}
    IN  IF hits = {} THEN <<>> ELSE <<dayRecs[Min(hits)]>>

\* dayRecords.slice().reverse().find(r => r.type === CHECK_OUT)
checkOutOf(dayRecs) ==
    LET hits == {i \in 1..Len(dayRecs) : dayRecs[i].type = "CHECK_OUT"}
    IN  IF hits = {} THEN <<>> ELSE <<dayRecs[Max(hits)]>>

\* a day's milliseconds without the guard on the order of the two records
dayMsUnguarded(dayRecs) ==
    LET checkIn == checkInOf(dayRecs)
        checkOut == checkOutOf(dayRecs)
    IN  IF checkIn # <<>> /\ checkOut # <<>>
        THEN checkOut[1].timestamp - checkIn[1].timestamp
        ELSE 0

\* checkOut.timestamp - checkIn.timestamp if both exist and it is positive
dayMsOf(dayRecs) ==
    LET checkIn == checkInOf(dayRecs)
        checkOut == checkOutOf(dayRecs)
    IN  IF checkIn # <<>> /\ checkOut # <<>> /\ checkOut[1].timestamp > checkIn[1].timestamp
        THEN checkOut[1].timestamp - checkIn[1].timestamp
        ELSE 0

\* calendarEvents.find(e => e.date === dateISO && e.type === 'HOLIDAY')
holidayOf(events, dateISO) ==
    \E i \in 1..Len(events) : events[i].date = dateISO /\ events[i].type = "HOLIDAY"

\* schedules.length === 0 || schedules.some(s => s.days.includes(dayName))
isScheduledOn(scheds, dayName) ==
    Len(scheds) = 0 \/ \E i \in 1..Len(scheds) : dayName \in scheds[i].days

\* allLeaves.find(l => ... new Date(l.startDate) <= date && new Date(l.endDate) >= date)
leaveOf(lvs, workerName, date) ==
    \E i \in 1..Len(lvs) :
        /\ lvs[i].employeeName = workerName
        /\ lvs[i].status = "Approved"
        /\ parseDate(lvs[i].startDate) <= date
        /\ parseDate(lvs[i].endDate) >= date

Abs(x) == IF x < 0 THEN 0 - x ELSE x

\* a loop that replaces the closest start when the next is as close
\* (diff <= minDiff): the last start at the least distance
closestStartLastOf(startTimes, checkInMinutes) ==
    LET minDiff == Min({Abs(checkInMinutes - startTimes[i]) : i \in 1..Len(startTimes)})
    IN  startTimes[Max({i \in 1..Len(startTimes) :
                          Abs(checkInMinutes - startTimes[i]) = minDiff})]

\* the loop "find closest start": the first start at the least distance
closestStartOf(startTimes, checkInMinutes) ==
    LET minDiff == Min({Abs(checkInMinutes - startTimes[i]) : i \in 1..Len(startTimes)})
    IN  startTimes[Min({i \in 1..Len(startTimes) :
                          Abs(checkInMinutes - startTimes[i]) = minDiff})]

\* lines 131-148: the first CHECK_IN is more than 15 minutes after the
\* closest shift start of the first schedule that lists the weekday
isLate(dayRecs, scheds, dayName, holiday) ==
    /\ checkInOf(dayRecs) # <<>>
    /\ isScheduledOn(scheds, dayName)
    /\ ~holiday
    /\ \E i \in 1..Len(scheds) : dayName \in scheds[i].days
    /\ LET schedule == scheds[Min({i \in 1..Len(scheds) : dayName \in scheds[i].days})]
           startTimes == [i \in 1..Len(schedule.shifts) |-> timeToMin(schedule.shifts[i].start)]
       IN  /\ Len(startTimes) > 0
           /\ minutesOfDay(checkInOf(dayRecs)[1].timestamp)
                > closestStartOf(startTimes, minutesOfDay(checkInOf(dayRecs)[1].timestamp)) + 15

\* a classification that looks at the calendar before it looks at the records
statusCalendarFirst(hasRecords, late, leave, holiday, isScheduled) ==
    IF leave THEN "ON_LEAVE"
    ELSE IF holiday THEN "HOLIDAY"
    ELSE IF ~isScheduled THEN "NON_WORKDAY"
    ELSE IF hasRecords THEN (IF late THEN "LATE" ELSE "PRESENT")
    ELSE "ABSENT"

\* a classification without the holiday branch
statusWithoutHoliday(hasRecords, late, leave, holiday, isScheduled) ==
    IF hasRecords THEN (IF late THEN "LATE" ELSE "PRESENT")
    ELSE IF leave THEN "ON_LEAVE"
    ELSE IF ~isScheduled THEN "NON_WORKDAY"
    ELSE "ABSENT"

\* lines 126-165, the status of a day.  PRESENT is 'حضور', LATE 'حضور (متأخر)',
\* ON_LEAVE 'إجازة', HOLIDAY 'عطلة رسمية', NON_WORKDAY 'عطلة أسبوعية', ABSENT 'غياب'
statusOf(hasRecords, late, leave, holiday, isScheduled) ==
    IF hasRecords THEN (IF late THEN "LATE" ELSE "PRESENT")
    ELSE IF leave THEN "ON_LEAVE"
    ELSE IF holiday THEN "HOLIDAY"
    ELSE IF ~isScheduled THEN "NON_WORKDAY"
    ELSE "ABSENT"

\* one iteration of the loop over the days of the month: the row pushed to
\* dailyReportData, with the day's milliseconds
dailyRow(monthlyRecords, workerName, date, scheds, events, lvs) ==
    LET dateISO == localISODate(date)
        dayName == weekdayLong(date)
        dayRecs == dayRecordsOf(monthlyRecords, date)
        holiday == holidayOf(events, dateISO)
        isScheduled == isScheduledOn(scheds, dayName)
    IN  [date |-> toLocaleDateString(date),
         dayName |-> dayName,
         status |-> statusOf(Len(dayRecs) > 0,
                             isLate(dayRecs, scheds, dayName, holiday),
                             leaveOf(lvs, workerName, date), holiday, isScheduled),
         checkIn |-> [i \in 1..Len(checkInOf(dayRecs)) |->
                        minutesOfDay(checkInOf(dayRecs)[i].timestamp)],
         checkOut |-> [i \in 1..Len(checkOutOf(dayRecs)) |->
                         minutesOfDay(checkOutOf(dayRecs)[i].timestamp)],
         hours |-> toFixed1(dayMsOf(dayRecs)),
         dayMs |-> dayMsOf(dayRecs)]

\* the loop with its break one day late: the days of the month up to tomorrow
processedDaysThroughTomorrow(t) ==
    1..Min({MonthLengths[getMonth(t) + 1],
            toDateString(t) - MonthStartDays[getMonth(t) + 1] + 2})

\* for (day = 1; day <= daysInMonth; day++) { ...; if (date > now) break; ... }:
\* the days up to the break, which comes no later than the day after today
processedDays(t) ==
    {day \in 1..Min({MonthLengths[getMonth(t) + 1],
                     toDateString(t) - MonthStartDays[getMonth(t) + 1] + 2}) :
        localDate(getMonth(t), day) <= t}

Reverse(seq) == [i \in 1..Len(seq) |-> seq[Len(seq) + 1 - i]]

\* totalMs += dayMs over the rows
RECURSIVE SumDayMs(_, _)
SumDayMs(rows, k) == IF k = 0 THEN 0 ELSE SumDayMs(rows, k - 1) + rows[k].dayMs

\* the difference to the standard hours without the floor at zero
overtimeSigned(totalHours, daysPresent) == totalHours - daysPresent * StandardDayHours

\* the worker summary's overtime: Math.max(0, totalHours - daysPresent * 8)
overtimeOf(totalHours, daysPresent) ==
    IF totalHours - daysPresent * StandardDayHours > 0
    THEN totalHours - daysPresent * StandardDayHours
    ELSE 0

\* the value of useMemo: stats and dailyReport (latest day first)
monthlySummary(recs, workerName, scheds, events, lvs, t) ==
    LET monthlyRecords == monthlyRecordsOf(recs, workerName, t)
        dailyReportData ==
            [day \in 1..Cardinality(processedDays(t)) |->
                dailyRow(monthlyRecords, workerName, localDate(getMonth(t), day),
                         scheds, events, lvs)]
        rows == 1..Len(dailyReportData)
        totalMs == SumDayMs(dailyReportData, Len(dailyReportData))
        daysPresent == Cardinality(uniqueDaysOf(monthlyRecords))
    IN  [stats |-> [daysPresent |-> daysPresent,
                    daysAbsent |-> Cardinality({i \in rows : dailyReportData[i].status = "ABSENT"}),
                    totalHours |-> MathRound(totalMs),
                    overtime |-> overtimeOf(MathRound(totalMs), daysPresent),
                    lateCount |-> Cardinality({i \in rows : dailyReportData[i].status = "LATE"})],
         dailyReport |-> Reverse(dailyReportData)]

\* the score without the floor at zero
attendanceScoreSigned(stats) == 100 - (stats.lateCount * 5) - (stats.daysAbsent * 10)

\* Math.max(0, 100 - (stats.lateCount * 5) - (stats.daysAbsent * 10))
attendanceScore(stats) ==
    Max({0, 100 - (stats.lateCount * 5) - (stats.daysAbsent * 10)})

\* the score card of UserDashboardView for given stats
RenderScore(lateCount, daysAbsent) ==
    /\ screen' = [screen EXCEPT !.score =
                    << [lateCount |-> lateCount, daysAbsent |-> daysAbsent,
                        attendanceScore |->
                            attendanceScore([lateCount |-> lateCount,
                                             daysAbsent |-> daysAbsent])] >>]
    /\ UNCHANGED <<local, firestore, session, app, now, tz, storeVars, notifications, inv, hist, epoch,
                   missingCheckoutAlert>>

\* UserDashboardView renders for a worker: the data loaded on mount and the
\* records of the session
RenderUserDashboard(workerName) ==
    /\ screen' = [screen EXCEPT !.user =
                    << [workerName |-> workerName, epoch |-> epoch,
                        summary |-> monthlySummary(getRecords(RecordLimit), workerName,
                                                   getWorkSchedules, getCalendarEvents,
                                                   getLeaveRequests, now),
                        attendanceScore |->
                            attendanceScore(monthlySummary(getRecords(RecordLimit), workerName,
                                                getWorkSchedules, getCalendarEvents,
                                                getLeaveRequests, now).stats)] >>]
    /\ UNCHANGED <<local, firestore, session, app, now, tz, storeVars, notifications, inv, hist, epoch, missingCheckoutAlert>>


----------------------------------------------------------------------------
(* DashboardView.tsx, generateReportData: the admin report *)

\* new Date(reportStartDate), setHours(0, 0, 0, 0)
reportStartOf(reportStartDate) == setHoursMidnight(parseDate(reportStartDate))

\* new Date(reportEndDate), setHours(23, 59, 59, 999)
reportEndOf(reportEndDate) == setHoursMidnight(parseDate(reportEndDate)) + MsPerDay - 1

\* records.filter(name, start <= timestamp <= end).sort(by timestamp)
empRecordsOf(recs, name, start, end) ==
    SortByTimestampAsc(
        SelectSeq(recs, LAMBDA r : /\ r.workerName = name
                                   /\ r.timestamp >= start
                                   /\ r.timestamp <= end))

\* leaves.some(l => ... new Date(l.startDate) <= loopDate && new Date(l.endDate) >= loopDate)
onLeaveAt(lvs, name, loopDate) ==
    \E i \in 1..Len(lvs) :
        /\ lvs[i].employeeName = name
        /\ lvs[i].status = "Approved"
        /\ parseDate(lvs[i].startDate) <= loopDate
        /\ parseDate(lvs[i].endDate) >= loopDate

\* the loop "while (loopDate <= end)": the local days, from start's on, whose
\* midnight the loop counts as absent
absentDatesOf(name, uniqueDaysPresentSet, start, end, scheds, events, lvs, t) ==
    {d \in toDateString(start)..toDateString(end) :
        LET loopDate == d * MsPerDay + getTimezoneOffset * MsPerMinute
            dateISO == localISODate(loopDate)
            dayName == weekdayLong(loopDate)
            isHoliday == holidayOf(events, dateISO)
            isScheduledDay == isScheduledOn(scheds, dayName)
        IN  /\ isScheduledDay /\ ~isHoliday /\ loopDate <= t
            /\ d \notin uniqueDaysPresentSet
            /\ ~onLeaveAt(lvs, name, loopDate)}

\* lines 312-329: the records grouped by toDateString; each group adds
\* checkOut.timestamp - checkIn.timestamp if both exist and it is positive
RECURSIVE totalMillisecondsOf(_, _)
totalMillisecondsOf(empRecords, days) ==
    IF days = {} THEN 0
    ELSE LET day == CHOOSE d \in days : TRUE
             dayRecs == SelectSeq(empRecords, LAMBDA r : toDateString(r.timestamp) = day)
             checkIn == checkInOf(dayRecs)
             checkOut == checkOutOf(dayRecs)
         IN  (IF checkIn # <<>> /\ checkOut # <<>>
                   /\ checkOut[1].timestamp > checkIn[1].timestamp
              THEN checkOut[1].timestamp - checkIn[1].timestamp
              ELSE 0)
             + totalMillisecondsOf(empRecords, days \ {day})

\* a decimal numeral with one digit after the point, as toFixed(1) writes it:
\* the digits before the point and the digit after it
FormatFixed1(tenths) == <<tenths \div 10, tenths % 10>>

\* totalHours > standardHours ? (totalHours - standardHours).toFixed(1) : "0",
\* with totalHours in tenths of an hour; "0" is the numeral <<0>>
overtimeHoursOf(totalHours, daysPresent) ==
    IF totalHours > daysPresent * StandardDayHours * 10
    THEN FormatFixed1(totalHours - daysPresent * StandardDayHours * 10)
    ELSE <<0>>

\* the report's row of one employee; absentDates spells out the days that
\* absentDays counts
reportRowOf(emp, recs, start, end, scheds, events, lvs, t) ==
    LET empRecords == empRecordsOf(recs, emp.name, start, end)
        uniqueDaysPresentSet == uniqueDaysOf(empRecords)
        absentDates == absentDatesOf(emp.name, uniqueDaysPresentSet, start, end,
                                     scheds, events, lvs, t)
        totalMilliseconds == totalMillisecondsOf(empRecords, uniqueDaysPresentSet)
        totalHours == toFixed1(totalMilliseconds)
    IN  [id |-> emp.id, name |-> emp.name, status |-> emp.status,
         totalMilliseconds |-> totalMilliseconds,
         totalHours |-> FormatFixed1(totalHours),
         overtimeHours |-> overtimeHoursOf(totalHours, Cardinality(uniqueDaysPresentSet)),
         daysPresent |-> Cardinality(uniqueDaysPresentSet),
         absentDays |-> Cardinality(absentDates),
         absentDates |-> absentDates]

\* the report tab renders with the chosen range
generateReportData(reportStartDate, reportEndDate) ==
    /\ screen' = [screen EXCEPT !.report =
                    << [reportStartDate |-> reportStartDate, reportEndDate |-> reportEndDate,
                        epoch |-> epoch,
                        rows |-> [i \in 1..Len(getEmployees) |->
                                    reportRowOf(getEmployees[i], getRecords(RecordLimit),
                                                reportStartOf(reportStartDate),
                                                reportEndOf(reportEndDate),
                                                getWorkSchedules, getCalendarEvents,
                                                getLeaveRequests, now)]] >>]
    /\ UNCHANGED <<local, firestore, session, app, now, tz, storeVars, notifications, inv, hist, epoch, missingCheckoutAlert>>

----------------------------------------------------------------------------
(* SettingsView.tsx, the second DashboardView: calculatedReportData *)

SubscriptionLimit == 30

\* subscribeToRecords(callback, limitCount): the snapshot of
\* query(orderBy('timestamp', 'desc'), limit(limitCount))
subscribeToRecords(limitCount) == Take(SortByTimestampDesc(records), limitCount)

\* the Map from worker name to the records in the range, in the order met
recordsMapGet(recs, name, start, end) ==
    SelectSeq(recs, LAMBDA r : /\ r.workerName = name
                               /\ r.timestamp >= start
                               /\ r.timestamp <= end)

\* dayGroups.forEach: each day's group adds cout.timestamp - cin.timestamp if
\* both exist and it is positive
RECURSIVE totalMsOf(_, _)
totalMsOf(empRecs, days) ==
    IF days = {} THEN 0
    ELSE LET dStr == CHOOSE d \in days : TRUE
             dayRecs == SelectSeq(empRecs, LAMBDA r : toDateString(r.timestamp) = dStr)
             cin == checkInOf(dayRecs)
             cout == checkOutOf(dayRecs)
         IN  (IF cin # <<>> /\ cout # <<>> /\ cout[1].timestamp > cin[1].timestamp
              THEN cout[1].timestamp - cin[1].timestamp
              ELSE 0)
             + totalMsOf(empRecs, days \ {dStr})

\* the row of one employee
calculatedRowOf(emp, recs, start, end) ==
    LET empRecs == SortByTimestampAsc(recordsMapGet(recs, emp.name, start, end))
        uniqueDays == uniqueDaysOf(empRecs)
        totalMs == totalMsOf(empRecs, uniqueDays)
    IN  [id |-> emp.id, name |-> emp.name,
         daysPresent |-> Cardinality(uniqueDays),
         totalMs |-> totalMs,
         totalHours |-> FormatFixed1(toFixed1(totalMs)),
         status |-> emp.status]

\* the reports tab of the second dashboard renders: start is
\* new Date(reportStartDate).getTime(), end new Date(reportEndDate) at 23:59:59.999
calculatedReportData(reportStartDate, reportEndDate) ==
    /\ screen' = [screen EXCEPT !.settingsReport =
                    << [reportStartDate |-> reportStartDate, reportEndDate |-> reportEndDate,
                        epoch |-> epoch,
                        rows |-> IF Len(subscribeToRecords(SubscriptionLimit)) = 0 THEN <<>>
                                 ELSE [i \in 1..Len(getEmployees) |->
                                         calculatedRowOf(getEmployees[i],
                                                         subscribeToRecords(SubscriptionLimit),
                                                         parseDate(reportStartDate),
                                                         reportEndOf(reportEndDate))]] >>]
    /\ UNCHANGED <<local, firestore, session, app, now, tz, storeVars, notifications, inv, hist, epoch, missingCheckoutAlert>>

----------------------------------------------------------------------------
(* The clock *)

TimeZones == {0 - 300, 0, 180}

SampleDays == {2, 3}             \* Saturday 3 and Sunday 4 January 1970

SampleMinutes == {8 * 60 + 30, 8 * 60 + 31}

\* the instant at which a clock of the zone reads minute m of day d
LocalInstant(d, m) == (d * 1440 + m - tz) * MsPerMinute

ClockSamples == {LocalInstant(d, m) : d \in SampleDays, m \in SampleMinutes}

\* the clock moves on to a later sampled instant of the same day
Tick ==
    /\ \E t \in ClockSamples : t > now /\ LocalDay(t) = LocalDay(now) /\ now' = t
    /\ UNCHANGED <<local, firestore, session, app, tz, storeVars, notifications, inv, hist, epoch, missingCheckoutAlert,
                   screen>>

TickMs ==
    /\ now % MsPerMinute < MaxMsDrift
    /\ now' = now + 1
    /\ UNCHANGED <<local, firestore, session, app, tz, storeVars, notifications, inv, hist, epoch, missingCheckoutAlert,
                   screen>>

----------------------------------------------------------------------------
(* Stores the program starts from *)

NameA == <<"a">>
NameAB == <<"a", "b">>
NameC == <<"c">>
WorkerNames == {NameA, NameAB, NameC}

Emp(k, name, status) == [id |-> PlainId(k), name |-> name, status |-> status]

Rosters ==
    { << Emp(1, NameA, "Active"), Emp(2, NameC, "Inactive") >>,
      << Emp(1, NameA, "Inactive"), Emp(2, NameAB, "Active") >>,
      << Emp(1, NameA, "Active"), Emp(2, NameC, "Active") >> }

Ev(k, date, type) == [id |-> PlainId(k), date |-> date, type |-> type]

EventLists ==
    { << Ev(1, 3, "HOLIDAY") >>,
      << Ev(1, 2, "EXTRA_WORKDAY") >>,
      << Ev(1, 3, "EXTRA_WORKDAY"), Ev(2, 3, "HOLIDAY") >>,
      << Ev(1, 3, "HOLIDAY"), Ev(2, 3, "EXTRA_WORKDAY") >>,
      << Ev(1, 2, "EXTRA_WORKDAY"), Ev(2, 2, "HOLIDAY") >> }

Lv(k, name, startDate, endDate, status) ==
    [id |-> PlainId(k), employeeName |-> name, startDate |-> startDate,
     endDate |-> endDate, status |-> status]

LeaveLists ==
    { << Lv(1, NameA, 3, 4, "Approved") >>,
      << Lv(1, NameA, 3, 3, "Approved") >>,
      << Lv(1, NameA, 2, 3, "Approved") >>,
      << Lv(1, NameA, 3, 4, "Pending") >>,
      << Lv(1, NameA, 3, 4, "Rejected") >> }

Rec(name, d, m, type) ==
    [id |-> PlainId(LocalInstant(d, m)), workerName |-> name,
     timestamp |-> LocalInstant(d, m), type |-> type,
     locationVerified |-> TRUE, verificationMethod |-> "GPS"]

RecordLists ==
    { << Rec(NameA, 2, 480, "CHECK_IN") >>,
      << Rec(NameA, 3, 480, "CHECK_IN") >>,
      << Rec(NameA, 3, 480, "CHECK_OUT") >>,
      << Rec(NameA, 2, 480, "CHECK_IN"), Rec(NameA, 2, 960, "CHECK_OUT") >> }

LeaveRequestTitle == "new leave request"

\* `قام الموظف ${request.employeeName} بتقديم طلب إجازة.`
LeaveRequestMessage(name) == <<"The employee ">> \o name \o <<" has submitted a leave request.">>

\* a store that already holds the notifications of fifty leave requests
OldNotifications ==
    [k \in 1..NotificationLimit |->
        [id |-> PlainId(k * MsPerMinute), title |-> LeaveRequestTitle,
         message |-> LeaveRequestMessage(NameC), date |-> <<"ar-EG", 0>>]]

Stores ==
    {[roster |-> r, events |-> <<>>, lvs |-> <<>>, recs |-> <<>>, notes |-> <<>>] :
        r \in Rosters}
    \cup {[roster |-> r, events |-> e, lvs |-> <<>>, recs |-> <<>>, notes |-> <<>>] :
        r \in {<< Emp(1, NameA, "Active"), Emp(2, NameC, "Inactive") >>}, e \in EventLists}
    \cup {[roster |-> r, events |-> <<>>, lvs |-> l, recs |-> <<>>, notes |-> <<>>] :
        r \in {<< Emp(1, NameA, "Active"), Emp(2, NameC, "Inactive") >>}, l \in LeaveLists}
    \cup {[roster |-> r, events |-> <<>>, lvs |-> <<>>, recs |-> x, notes |-> <<>>] :
        r \in {<< Emp(1, NameA, "Active"), Emp(2, NameC, "Inactive") >>}, x \in RecordLists}
    \cup {[roster |-> r, events |-> <<>>, lvs |-> <<>>, recs |-> <<>>, notes |-> OldNotifications] :
        r \in {<< Emp(1, NameA, "Active"), Emp(2, NameC, "Inactive") >>}}

Init ==
    /\ tz \in TimeZones
    /\ now \in ClockSamples
    /\ \E st \in Stores :
         /\ employees = st.roster
         /\ calendarEvents = st.events
         /\ leaves = st.lvs
         /\ records = st.recs
         /\ notifications = st.notes
    /\ \A i \in 1..Len(records) : records[i].timestamp <= now
    /\ schedules = <<>>
    /\ inv = [p \in Procs |-> IdleLocals]
    /\ hist = <<>>
    /\ epoch = 0
    /\ missingCheckoutAlert = [w \in WorkerNames |-> <<>>]
    /\ screen = NoScreen
    /\ firestore = "up"
    /\ session = NoSession
    /\ app = [w \in WorkerNames |-> NoAttendance]
    /\ local = NoLocal

Quiet == \A q \in Procs : ~Running(q)

Invocation ==
    \/ \E p \in Procs : ReadEvents(p)
    \/ \E p \in Procs : ReadSchedules(p)
    \/ \E p \in Procs : ReadEmployees(p)
    \/ \E p \in Procs : ReadRecords(p)
    \/ \E p \in Procs : ReadLeaves(p)
    \/ \E p \in Procs : ReadNotifications(p)
    \/ \E p \in Procs : Save(p)

\* The periodic check of one administrator's session: its runs follow one
\* another.  An invocation reads each collection once, so a write of another
\* session that lands during an invocation is seen as one that landed just
\* before or just after it: the other sessions act between invocations.
Next ==
    \/ Call("timer")
    \/ Invocation
    \/ Quiet /\ \E i \in 1..Len(employees) : toggleEmployeeStatus(i)
    \/ Quiet /\ \E w \in WorkerNames : MissingCheckoutEffect(w)
    \/ Quiet /\ \E w \in WorkerNames : DismissMissingCheckoutAlert(w)
    \/ Tick

Spec == Init /\ [][Next]_vars

----------------------------------------------------------------------------
(* The claims about the alerting engine *)

IdsOf(saved) == {saved[i].id : i \in 1..Len(saved)}

\* the notifications among `saved` that were generated for `name`
SavedFor(saved, name) ==
    {i \in 1..Len(saved) :
        /\ saved[i].title = AbsenceTitle
        /\ \E label \in {"extra workday"} \cup Range(WeekdayNames) :
               saved[i].message = AbsenceMessage(name, label)}

RECURSIVE SavedUpTo(_)
SavedUpTo(k) == IF k = 0 THEN 0 ELSE SavedUpTo(k - 1) + Len(hist[k].saved)

RECURSIVE SavedIdsUpTo(_)
SavedIdsUpTo(k) == IF k = 0 THEN {} ELSE SavedIdsUpTo(k - 1) \cup IdsOf(hist[k].saved)

\* no invocation is running and the notifications the invocations saved all
\* drew ids of their own (Date.now() and the five random digits differed)
NoIdCollision ==
    /\ Quiet
    /\ Cardinality(SavedIdsUpTo(Len(hist))) = SavedUpTo(Len(hist))

\* C2 (as stated): of two invocations of checkAndGenerateAbsenceAlerts on the
\* same day, the second starting after the first has completed, with
\* employees, records, leaves and schedules unchanged and at least one
\* employee eligible for an alert, the first returns a nonzero count and the
\* second returns 0 and saves no notification.  Stated for runs whose
\* notifications all got ids of their own.
C2IdempotentAlerting ==
    \A i \in 1..Len(hist) : \A j \in 1..Len(hist) :
        ( /\ j = i + 1
          /\ hist[j].calledAfter >= i
          /\ hist[i].todayStr = hist[j].todayStr
          /\ hist[j].dayAtEnd = hist[i].todayStr
          /\ hist[i].epochAtCall = hist[j].epochAtEnd
          /\ hist[i].eligibleAtRead # {}
          /\ NoIdCollision )
        => ( /\ hist[i].ret > 0
             /\ hist[j].ret = 0
             /\ hist[j].saved = <<>> )

\* C3 (as stated): after sequential runs of the pass on one day, grace period
\* elapsed, on a workday, every Active employee with no CHECK_IN today and no
\* Approved leave has exactly one absence notification dated today that was
\* generated for that employee, also when one name contains another.  Stated
\* for a store below the limit of the notification query and for runs whose
\* notifications all got ids of their own.
C3ExactlyOncePerDay ==
    ( /\ Quiet
      /\ hist # <<>>
      /\ Len(notifications) < NotificationLimit
      /\ NoIdCollision )
    => LET h == hist[Len(hist)]
       IN  ( /\ h.epochAtCall = epoch
             /\ h.todayStr = LocalDay(now) )
           => \A name \in h.owedAtRead :
                  Cardinality(AbsenceNotesFor(name, h.todayStr)) = 1

\* C5 (as stated): a run of the absence check, for every Active employee whose
\* last record of yesterday is a CHECK_IN and for whom no missing-checkout
\* notification is stored, saves exactly one missing-checkout notification
\* naming that employee and counts it in the value it returns.  Stated for
\* the runs that get as far as the loop over the employees.
C5MissingCheckoutPass ==
    \A k \in 1..Len(hist) :
        \A name \in hist[k].owedCheckoutAtCall :
            ( /\ hist[k].graceTested
              /\ \E start \in ShiftStartsOn(hist[k].todayStr) :
                     hist[k].currentMinutes > start + 30 )
            =>
            /\ Cardinality(MissingCheckoutNotesFor(hist[k].saved, name)) = 1
            /\ hist[k].ret >= 1

\* C6 (as stated): whenever a calendar event of type HOLIDAY exists for
\* today's date, the check returns 0 and saves no notification, whatever
\* other event is stored for the same date and in whatever order.
C6HolidaySuppressesAlerting ==
    \A k \in 1..Len(hist) :
        HolidayOn(hist[k].todayStr) => (hist[k].ret = 0 /\ hist[k].saved = <<>>)

\* C8: the pass saves no notification and returns 0 as long as, for every
\* applicable shift start S, the current minute of the day is <= S + 30
\* (exactly S + 30 is still too early); an invocation about to save has seen
\* a minute of the day > S + 30 for some applicable shift.
C8GracePeriod ==
    /\ \A k \in 1..Len(hist) :
           ( /\ hist[k].graceTested
             /\ \A start \in ShiftStartsOn(hist[k].todayStr) :
                    hist[k].currentMinutes <= start + 30 )
           => (hist[k].ret = 0 /\ hist[k].saved = <<>>)
    /\ \A p \in Procs :
           inv[p].pc = "save"
           => \E start \in ShiftStartsOn(inv[p].todayStr) :
                  inv[p].currentMinutes > start + 30

\* C8 witness: a run at exactly 08:00 + 30 minutes, an Active employee not yet
\* checked in, returned 0; the next run, one minute later, raised an alert
C8Witness ==
    /\ Len(hist) = 2
    /\ hist[1].graceTested
    /\ hist[1].currentMinutes = 8 * 60 + 30
    /\ hist[1].ret = 0
    /\ hist[2].currentMinutes = 8 * 60 + 31
    /\ hist[2].owedAtRead # {}
    /\ hist[2].ret > 0
    /\ hist[2].todayStr = hist[1].todayStr

\* C9 (as stated): an Active employee with an Approved leave whose calendar
\* dates include today, first and last day included, never receives an
\* absence notification from the pass; Pending and Rejected requests do not
\* suppress it.
C9ApprovedLeaveSuppresses ==
    \A k \in 1..Len(hist) :
        /\ \A name \in WorkerNames :
               ApprovedLeaveCovers(name, hist[k].todayStr)
               => SavedFor(hist[k].saved, name) = {}
        /\ \A name \in hist[k].eligibleAtRead :
               SavedFor(hist[k].saved, name) # {}

----------------------------------------------------------------------------
(* The dashboards: workers check in and out, a worker's monthly summary and  *)
(* the admin report are rendered                                             *)

DashEventLists == {<<>>, << Ev(1, 3, "HOLIDAY") >>}

DashLeaveLists ==
    { <<>>,
      << Lv(1, NameA, 3, 4, "Approved") >>,
      << Lv(1, NameA, 2, 3, "Approved") >>,
      << Lv(1, NameA, 3, 4, "Pending") >> }

ReportRanges == {<<2, 3>>, <<3, 4>>}

InitDash ==
    /\ tz \in TimeZones
    /\ now \in ClockSamples
    /\ employees = << Emp(1, NameA, "Active"), Emp(2, NameC, "Active") >>
    /\ calendarEvents \in DashEventLists
    /\ leaves \in DashLeaveLists
    /\ records \in RecordLists \cup {<<>>}
    /\ \A i \in 1..Len(records) : records[i].timestamp <= now
    /\ notifications = <<>>
    /\ schedules = <<>>
    /\ inv = [p \in Procs |-> IdleLocals]
    /\ hist = <<>>
    /\ epoch = 0
    /\ missingCheckoutAlert = [w \in WorkerNames |-> <<>>]
    /\ screen = NoScreen
    /\ firestore = "up"
    /\ session = NoSession
    /\ app = [w \in WorkerNames |-> NoAttendance]
    /\ local = NoLocal

NextDash ==
    \/ \E type \in {"CHECK_IN", "CHECK_OUT"} : handlePhotoCaptured(NameA, type)
    \/ \E w \in {NameA, NameC} : RenderUserDashboard(w)
    \/ \E range \in ReportRanges : generateReportData(range[1], range[2])
    \/ Tick

SpecDash == InitDash /\ [][NextDash]_vars

----------------------------------------------------------------------------
(* The claims about the classification of days *)

HasRecordOn(name, day) ==
    \E i \in 1..Len(records) :
        records[i].workerName = name /\ LocalDay(records[i].timestamp) = day

\* the worker's summary on screen was computed from the records as they are
FreshSummaries == {v \in Range(screen.user) : v.epoch = epoch}

FreshReports == {v \in Range(screen.report) : v.epoch = epoch}

\* C1: for every worker and every date on which the worker has at least one
\* attendance record, the classifier returns PRESENT or LATE, also when the
\* date is a HOLIDAY, is covered by an Approved leave or is not a scheduled
\* weekday; the days counted present are the days with a record, the days
\* counted absent are rows ABSENT, and no day is both.
C1PresencePrecedence ==
    \A v \in FreshSummaries :
        LET rows == v.summary.dailyReport
            present == {d \in 0..LocalDay(now) : HasRecordOn(v.workerName, d)}
            absent == {rows[i].date[2] : i \in {j \in 1..Len(rows) : rows[j].status = "ABSENT"}}
        IN  /\ \A i \in 1..Len(rows) :
                   HasRecordOn(v.workerName, rows[i].date[2])
                   => rows[i].status \in {"PRESENT", "LATE"}
            /\ v.summary.stats.daysPresent = Cardinality(present)
            /\ v.summary.stats.daysAbsent = Cardinality(absent)
            /\ present \cap absent = {}

\* C1 witness: a summary in which a day with a record that is a HOLIDAY inside
\* an Approved leave is PRESENT or LATE, and so is a day with a record that
\* no schedule lists
C1Witness ==
    \E v \in FreshSummaries :
        LET rows == v.summary.dailyReport
        IN  /\ \E i \in 1..Len(rows) :
                   /\ HasRecordOn(v.workerName, rows[i].date[2])
                   /\ HolidayOn(rows[i].date[2])
                   /\ ApprovedLeaveCovers(v.workerName, rows[i].date[2])
                   /\ rows[i].status \in {"PRESENT", "LATE"}
            /\ \E i \in 1..Len(rows) :
                   /\ HasRecordOn(v.workerName, rows[i].date[2])
                   /\ ~ScheduledOn(rows[i].date[2])
                   /\ rows[i].status \in {"PRESENT", "LATE"}

\* C7: a date marked HOLIDAY on which the worker has no records is never
\* classified ABSENT and is not among the days daysAbsent counts, in the
\* worker's monthly summary and in the admin report alike, also when a work
\* schedule lists the date's weekday.
C7HolidayNeverAbsent ==
    /\ \A v \in FreshSummaries :
           LET rows == v.summary.dailyReport
           IN  /\ \A i \in 1..Len(rows) :
                      ( /\ HolidayOn(rows[i].date[2])
                        /\ ~HasRecordOn(v.workerName, rows[i].date[2]) )
                      => rows[i].status # "ABSENT"
               /\ v.summary.stats.daysAbsent =
                      Cardinality({i \in 1..Len(rows) : rows[i].status = "ABSENT"})
    /\ \A v \in FreshReports :
           \A i \in 1..Len(v.rows) :
               /\ \A d \in v.rows[i].absentDates : ~HolidayOn(d)
               /\ v.rows[i].absentDays = Cardinality(v.rows[i].absentDates)

\* C7 witness: a scheduled weekday marked HOLIDAY, no records, no leave: the
\* worker's summary shows HOLIDAY and counts no absence on it, and the admin
\* report, whose range includes the day, counts none either
C7Witness ==
    /\ \E v \in FreshSummaries :
           \E i \in 1..Len(v.summary.dailyReport) :
               LET row == v.summary.dailyReport[i]
               IN  /\ HolidayOn(row.date[2]) /\ ScheduledOn(row.date[2])
                   /\ ~HasRecordOn(v.workerName, row.date[2])
                   /\ row.status = "HOLIDAY"
    /\ \E v \in FreshReports :
           \E i \in 1..Len(v.rows) : \E d \in LocalDay(reportStartOf(v.reportStartDate))
                                              ..LocalDay(reportEndOf(v.reportEndDate)) :
               /\ HolidayOn(d) /\ ScheduledOn(d)
               /\ ~HasRecordOn(v.rows[i].name, d)
               /\ ~ApprovedLeaveCovers(v.rows[i].name, d)
               /\ d <= LocalDay(now)
               /\ d \notin v.rows[i].absentDates

\* C10 (as stated): for a worker with no records on a date D inside an
\* Approved leave window (startDate <= D <= endDate, both ends included), the
\* classifier returns ON_LEAVE and D is not counted absent, in the worker's
\* summary and in the admin report, whether or not D is a scheduled workday
\* or a holiday.
C10LeaveInClassification ==
    /\ \A v \in FreshSummaries :
           \A i \in 1..Len(v.summary.dailyReport) :
               LET row == v.summary.dailyReport[i]
               IN  ( /\ ~HasRecordOn(v.workerName, row.date[2])
                     /\ ApprovedLeaveCovers(v.workerName, row.date[2]) )
                   => row.status = "ON_LEAVE"
    /\ \A v \in FreshReports :
           \A i \in 1..Len(v.rows) : \A d \in v.rows[i].absentDates :
               ~ApprovedLeaveCovers(v.rows[i].name, d)

----------------------------------------------------------------------------
\* The timer's run and a click on "check absence" (or two administrators'
\* sessions) in any interleaving, at millisecond resolution
InitRace ==
    /\ Init
    /\ calendarEvents = <<>>
    /\ leaves = <<>>
    /\ records = <<>>
    /\ notifications = <<>>
    /\ LocalDay(now) = 3

NextRace ==
    \/ \E p \in Procs : Call(p)
    \/ Invocation
    \/ Tick
    \/ TickMs

SpecRace == InitRace /\ [][NextRace]_vars

\* C4: when two invocations both read the notification list before either
\* has saved its notification for an employee, each of them saves one for
\* that employee, and (their ids differing) both are stored: two absence
\* notifications for the same employee and the same date.
C4RaceDuplicates ==
    \A i \in 1..Len(hist) : \A j \in 1..Len(hist) :
        \A name \in hist[i].eligibleAtRead \cap hist[j].eligibleAtRead :
            (i < j /\ hist[i].todayStr = hist[j].todayStr)
            => /\ SavedFor(hist[i].saved, name) # {}
               /\ SavedFor(hist[j].saved, name) # {}
               /\ NoIdCollision
                    => Cardinality(AbsenceNotesFor(name, hist[i].todayStr)) >= 2

\* C4 witness: the timer's run and the manual run overlapped and two absence
\* notifications for one employee, dated today, are stored
C4Witness ==
    /\ Len(hist) = 2
    /\ hist[1].overlapped /\ hist[2].overlapped
    /\ hist[1].proc # hist[2].proc
    /\ \E name \in WorkerNames : Cardinality(AbsenceNotesFor(name, LocalDay(now))) = 2

----------------------------------------------------------------------------
(* The hours of a day: check-ins around the shift starts, check-outs, the   *)
(* summary and the report rendered from them                                *)

Sch(k, days, starts) ==
    [id |-> PlainId(k), days |-> days,
     shifts |-> [i \in 1..Len(starts) |-> [start |-> starts[i]]]]

\* no stored schedule (the default one applies, shifts at 08:00 and 13:00),
\* and two schedules that both list Sunday
ScheduleLists ==
    { <<>>,
      << Sch(1, {"Sun", "Mon"}, << <<8, 0>> >>), Sch(2, {"Sun"}, << <<9, 0>> >>) >> }

HoursEventLists == {<<>>, << Ev(1, 2, "EXTRA_WORKDAY") >>}

\* twenty days, 1 to 20 January, each from 08:00 to 16:30
TwentyDays ==
    [k \in 1..40 |->
        IF k % 2 = 1 THEN Rec(NameA, (k - 1) \div 2, 8 * 60, "CHECK_IN")
        ELSE Rec(NameA, (k - 1) \div 2, 16 * 60 + 30, "CHECK_OUT")]

HoursRecordLists ==
    { <<>>,
      << Rec(NameA, 3, 8 * 60 + 10, "CHECK_IN"), Rec(NameA, 3, 16 * 60, "CHECK_OUT") >>,
      << Rec(NameA, 3, 16 * 60, "CHECK_OUT"), Rec(NameA, 3, 8 * 60 + 10, "CHECK_IN") >>,
      << Rec(NameA, 3, 8 * 60 + 10, "CHECK_OUT"), Rec(NameA, 3, 8 * 60 + 20, "CHECK_IN") >>,
      << Rec(NameA, 3, 8 * 60 + 10, "CHECK_IN") >>,
      << Rec(NameA, 3, 16 * 60, "CHECK_OUT") >>,
      << Rec(NameA, 3, 8 * 60 + 10, "CHECK_IN"), Rec(NameA, 3, 12 * 60, "CHECK_OUT"),
         Rec(NameA, 3, 13 * 60, "CHECK_IN"), Rec(NameA, 3, 16 * 60, "CHECK_OUT") >>,
      TwentyDays }

HoursMinutes ==
    {8 * 60 + 10, 8 * 60 + 15, 8 * 60 + 16, 8 * 60 + 20, 9 * 60 + 5, 16 * 60 + 30}

\* Sunday 4 January 1970, and the afternoon of Tuesday 20 January
HoursClockSamples ==
    {LocalInstant(3, m) : m \in HoursMinutes} \cup {LocalInstant(19, 16 * 60 + 30)}

HoursReportRange == <<0, 19>>

InitHours ==
    /\ tz \in TimeZones
    /\ now \in HoursClockSamples
    /\ employees = << Emp(1, NameA, "Active"), Emp(2, NameC, "Active") >>
    /\ calendarEvents \in HoursEventLists
    /\ leaves = <<>>
    /\ records \in HoursRecordLists
    /\ \A i \in 1..Len(records) : records[i].timestamp <= now
    /\ notifications = <<>>
    /\ schedules \in ScheduleLists
    /\ inv = [p \in Procs |-> IdleLocals]
    /\ hist = <<>>
    /\ epoch = 0
    /\ missingCheckoutAlert = [w \in WorkerNames |-> <<>>]
    /\ screen = NoScreen
    /\ firestore = "up"
    /\ session = NoSession
    /\ app = [w \in WorkerNames |-> NoAttendance]
    /\ local = NoLocal

NextHours ==
    \/ \E type \in {"CHECK_IN", "CHECK_OUT"} : handlePhotoCaptured(NameA, type)
    \/ RenderUserDashboard(NameA)
    \/ generateReportData(HoursReportRange[1], HoursReportRange[2])
    \/ calculatedReportData(HoursReportRange[1], HoursReportRange[2])

SpecHours == InitHours /\ [][NextHours]_vars

----------------------------------------------------------------------------
(* The claims about lateness, worked hours and overtime *)

LateGraceMinutes == 15

\* the minute of day of the worker's first CHECK_IN of the day, if any
FirstCheckInMinutes(name, day) ==
    LET ins == {i \in 1..Len(records) :
                   /\ records[i].workerName = name
                   /\ records[i].type = "CHECK_IN"
                   /\ LocalDay(records[i].timestamp) = day}
    IN  {minutesOfDay(records[i].timestamp) :
            i \in {j \in ins : \A k \in ins : records[j].timestamp <= records[k].timestamp}}

\* the start closest to minute m among the starts of every schedule that
\* lists the day's weekday; of two equally close, the earlier
ClosestStartOn(day, m) ==
    CHOOSE s \in ShiftStartsOn(day) :
        \A u \in ShiftStartsOn(day) :
            \/ Abs(m - s) < Abs(m - u)
            \/ Abs(m - s) = Abs(m - u) /\ s <= u

\* C11: on a day with a CHECK_IN that is a scheduled workday and not a
\* holiday, the worker's row is LATE iff the check-in's minute of day is more
\* than 15 minutes after the closest shift start, the closest taken over the
\* shift starts of every schedule that lists the weekday; otherwise PRESENT.
C11LatenessRefinement ==
    \A v \in FreshSummaries :
        \A i \in 1..Len(v.summary.dailyReport) :
            LET row == v.summary.dailyReport[i]
                day == row.date[2]
            IN  \A m \in FirstCheckInMinutes(v.workerName, day) :
                    (ScheduledOn(day) /\ ~HolidayOn(day))
                    => /\ row.status \in {"LATE", "PRESENT"}
                       /\ row.status = "LATE"
                            <=> m > ClosestStartOn(day, m) + LateGraceMinutes

\* the timestamps of the records of the given type that `name` has on `day`
StampsOn(recs, name, day, type) ==
    {recs[i].timestamp : i \in {j \in 1..Len(recs) :
                                   /\ recs[j].workerName = name
                                   /\ recs[j].type = type
                                   /\ LocalDay(recs[j].timestamp) = day}}

\* worked duration of a day: last CHECK_OUT minus first CHECK_IN when both
\* exist and the difference is positive, else 0
WorkedMs(recs, name, day) ==
    LET ins == StampsOn(recs, name, day, "CHECK_IN")
        outs == StampsOn(recs, name, day, "CHECK_OUT")
    IN  IF ins # {} /\ outs # {} /\ Max(outs) > Min(ins)
        THEN Max(outs) - Min(ins)
        ELSE 0

RECURSIVE SumWorkedMs(_, _, _)
SumWorkedMs(recs, name, days) ==
    IF days = {} THEN 0
    ELSE LET d == CHOOSE x \in days : TRUE
         IN  WorkedMs(recs, name, d) + SumWorkedMs(recs, name, days \ {d})

\* the days on which the records have something
DaysOf(recs) == {LocalDay(recs[i].timestamp) : i \in 1..Len(recs)}

FreshSettingsReports == {v \in Range(screen.settingsReport) : v.epoch = epoch}

\* C12: for the records of a worker on one day, in whatever order they are
\* stored, the day's worked duration is (last CHECK_OUT - first CHECK_IN)
\* when both exist and the difference is positive and 0 otherwise, never
\* negative: in each row of the worker summary, and summed over the days of
\* the range in the admin report and in the report of the second dashboard.
C12WorkedDuration ==
    /\ \A v \in FreshSummaries :
           \A i \in 1..Len(v.summary.dailyReport) :
               LET row == v.summary.dailyReport[i]
               IN  /\ row.dayMs >= 0
                   /\ row.dayMs = WorkedMs(getRecords(RecordLimit), v.workerName, row.date[2])
                   /\ row.hours = toFixed1(row.dayMs)
    /\ \A v \in FreshReports :
           \A i \in 1..Len(v.rows) :
               LET inRange == recordsMapGet(getRecords(RecordLimit), v.rows[i].name,
                                            reportStartOf(v.reportStartDate),
                                            reportEndOf(v.reportEndDate))
               IN  /\ v.rows[i].totalMilliseconds >= 0
                   /\ v.rows[i].totalMilliseconds
                        = SumWorkedMs(inRange, v.rows[i].name, DaysOf(inRange))
    /\ \A v \in FreshSettingsReports :
           \A i \in 1..Len(v.rows) :
               LET inRange == recordsMapGet(subscribeToRecords(SubscriptionLimit),
                                            v.rows[i].name,
                                            parseDate(v.reportStartDate),
                                            reportEndOf(v.reportEndDate))
               IN  /\ v.rows[i].totalMs >= 0
                   /\ v.rows[i].totalMs
                        = SumWorkedMs(inRange, v.rows[i].name, DaysOf(inRange))

\* C12 witness: a day with a CHECK_OUT before the CHECK_IN shows 0 hours and a
\* day with two sessions shows the time from the first CHECK_IN to the last
\* CHECK_OUT, in the summary and in both reports
C12Witness ==
    /\ \E v \in FreshSummaries : \E i \in 1..Len(v.summary.dailyReport) :
           LET row == v.summary.dailyReport[i]
           IN  /\ row.checkIn # <<>> /\ row.checkOut # <<>>
               /\ row.checkOut[1] < row.checkIn[1]
               /\ row.dayMs = 0
    /\ \E v \in FreshReports : \E i \in 1..Len(v.rows) :
           v.rows[i].name = NameA /\ v.rows[i].totalMilliseconds = 0 /\ v.rows[i].daysPresent = 1
    /\ \E v \in FreshSettingsReports : \E i \in 1..Len(v.rows) :
           v.rows[i].name = NameA /\ v.rows[i].totalMs = 0 /\ v.rows[i].daysPresent = 1

\* C13 (as stated): a date carrying an EXTRA_WORKDAY event and no HOLIDAY event
\* is a workday even when no schedule lists its weekday: a worker with no
\* records and no Approved leave on it is classified ABSENT in the worker
\* summary, not NON_WORKDAY, and the admin report counts the date absent.
C13ExtraWorkdayInClassification ==
    /\ \A v \in FreshSummaries :
           \A i \in 1..Len(v.summary.dailyReport) :
               LET row == v.summary.dailyReport[i]
                   day == row.date[2]
               IN  ( /\ ExtraWorkdayOn(day) /\ ~HolidayOn(day)
                     /\ ~HasRecordOn(v.workerName, day)
                     /\ ~ApprovedLeaveCovers(v.workerName, day) )
                   => row.status = "ABSENT"
    /\ \A v \in FreshReports :
           \A i \in 1..Len(v.rows) :
               \A day \in v.reportStartDate..v.reportEndDate :
                   ( /\ ExtraWorkdayOn(day) /\ ~HolidayOn(day)
                     /\ day <= LocalDay(now)
                     /\ ~HasRecordOn(v.rows[i].name, day)
                     /\ ~ApprovedLeaveCovers(v.rows[i].name, day) )
                   => day \in v.rows[i].absentDates

----------------------------------------------------------------------------
(* The periodic check while requests to the document store may fail *)

\* the connection to the document store is lost, or comes back
ConnectionChange ==
    /\ firestore' = IF firestore = "up" THEN "down" ELSE "up"
    /\ UNCHANGED <<local, session, app, now, tz, storeVars, notifications, inv, hist, epoch,
                   missingCheckoutAlert, screen>>

NextFail ==
    \/ Call("timer")
    \/ Invocation
    \/ ConnectionChange
    \/ Tick

SpecFail == Init /\ [][NextFail]_vars

\* C14 (as stated): every invocation of checkAndGenerateAbsenceAlerts that
\* completes does so by returning a count >= 0 and never by rejecting, also
\* when a read of events, schedules, employees, records, leaves or
\* notifications, or the write of a notification, fails.
C14AbsenceCheckTotal ==
    \A k \in 1..Len(hist) : ~hist[k].rejected /\ hist[k].ret >= 0

----------------------------------------------------------------------------
(* App: login, logout and the interval of the automatic absence check *)

IntervalMs == 300000             \* 5 * 60 * 1000

MaxIntervals == 2                \* periods of the interval that may elapse

\* the effect on [isAuthenticated, userRole] of an authenticated ADMIN:
\* runChecks() at once and setInterval(runChecks, 5 * 60 * 1000)
handleLogin(role) ==
    /\ ~session.isAuthenticated
    /\ IF role = "ADMIN"
       THEN /\ StartInvocation("timer")
            /\ session' = [isAuthenticated |-> TRUE, userRole |-> role,
                           interval |-> <<now + IntervalMs>>, lastRun |-> <<now>>]
       ELSE /\ session' = [session EXCEPT !.isAuthenticated = TRUE, !.userRole = role]
            /\ UNCHANGED inv
    /\ UNCHANGED <<local, firestore, app, now, tz, storeVars, notifications, hist, epoch,
                   missingCheckoutAlert, screen>>

\* a logout that leaves the interval running
handleLogoutKeepingInterval ==
    /\ session.isAuthenticated
    /\ session' = [session EXCEPT !.isAuthenticated = FALSE, !.userRole = "USER"]
    /\ UNCHANGED <<local, firestore, app, now, tz, storeVars, notifications, inv, hist, epoch,
                   missingCheckoutAlert, screen>>

\* handleLogout: setIsAuthenticated(false), setUserRole('USER'); the effect's
\* cleanup runs on the change: clearInterval(interval)
handleLogout ==
    /\ session.isAuthenticated
    /\ session' = [session EXCEPT !.isAuthenticated = FALSE, !.userRole = "USER",
                                  !.interval = <<>>]
    /\ UNCHANGED <<local, firestore, app, now, tz, storeVars, notifications, inv, hist, epoch,
                   missingCheckoutAlert, screen>>

\* the interval's callback: runChecks with the isAuthenticated and userRole
\* of the render that set the interval (an authenticated ADMIN); a callback
\* that runs late is followed by the next one a whole period after it
IntervalFires ==
    /\ session.interval # <<>>
    /\ now >= session.interval[1]
    /\ StartInvocation("timer")
    /\ session' = [session EXCEPT !.interval = <<now + IntervalMs>>,
                                  !.lastRun = <<now>>]
    /\ UNCHANGED <<local, firestore, app, now, tz, storeVars, notifications, hist, epoch,
                   missingCheckoutAlert, screen>>

\* five minutes pass
Elapse ==
    /\ minutesOfDay(now) < 8 * 60 + 31 + 5 * MaxIntervals
    /\ now' = now + IntervalMs
    /\ UNCHANGED <<local, firestore, session, app, tz, storeVars, notifications, inv, hist, epoch,
                   missingCheckoutAlert, screen>>

InitSession ==
    /\ Init
    /\ employees = << Emp(1, NameA, "Active"), Emp(2, NameC, "Active") >>
    /\ calendarEvents = <<>>
    /\ leaves = <<>>
    /\ records = <<>>
    /\ notifications = <<>>
    /\ now = LocalInstant(3, 8 * 60 + 31)

NextSession ==
    \/ \E role \in {"ADMIN", "USER"} : handleLogin(role)
    \/ handleLogout
    \/ IntervalFires
    \/ Invocation
    \/ Elapse

SpecSession == InitSession /\ [][NextSession]_vars

\* the timer starts an invocation in this step
TimerStarts == ~Running("timer") /\ inv'["timer"].pc = "events"

\* C15: the timer starts an invocation only in a session authenticated as
\* ADMIN: at login, and within the session no sooner than five minutes after
\* its previous start; the interval exists only in such a session, so after
\* logout no invocation is started, while one in flight goes on.
C15TimerTeardown ==
    [][ /\ TimerStarts => /\ session'.isAuthenticated
                          /\ session'.userRole = "ADMIN"
                          /\ session.isAuthenticated =>
                               now >= session.lastRun[1] + IntervalMs
        /\ session'.interval # <<>> => /\ session'.isAuthenticated
                                       /\ session'.userRole = "ADMIN"
      ]_vars

\* C15 witness: the session has ended, the interval is cleared, and the
\* invocation that the timer started before is still in flight, about to
\* write a notification
C15Witness ==
    /\ ~session.isAuthenticated
    /\ session.interval = <<>>
    /\ session.lastRun # <<>> /\ now >= session.lastRun[1] + IntervalMs
    /\ inv["timer"].pc = "save"

----------------------------------------------------------------------------
\* The attendance flow of two workers' devices: positions arrive, a type is
\* chosen by the GPS button or by the QR flow, the camera opens, and the photo
\* saves the record.

GeoWorkers == {NameA, NameC}
GeoDistances == {radiusMeters, radiusMeters + 1}

\* the devices on which the QR flow is used
QRWorkers == {NameA}

\* the texts a scan decodes: the workshop's code and another one
ScanTexts == {qrCodeValue, "WORKSHOP-SECRET-2"}

\* the store is empty, or NameC's device has saved a check-in in the very
\* millisecond the behaviour starts at
GeoRecordLists == { <<>>, << Rec(NameC, 3, 8 * 60 + 30, "CHECK_IN") >> }

InitGeo ==
    /\ tz = 0
    /\ now = LocalInstant(3, 8 * 60 + 30)
    /\ employees = << Emp(1, NameA, "Active"), Emp(2, NameC, "Active") >>
    /\ calendarEvents = <<>>
    /\ leaves = <<>>
    /\ records \in GeoRecordLists
    /\ notifications = <<>>
    /\ schedules = <<>>
    /\ inv = [p \in Procs |-> IdleLocals]
    /\ hist = <<>>
    /\ epoch = 0
    /\ missingCheckoutAlert = [w \in WorkerNames |-> <<>>]
    /\ screen = NoScreen
    /\ firestore = "up"
    /\ session = NoSession
    /\ app = [w \in WorkerNames |-> NoAttendance]
    /\ local = NoLocal

NextGeo ==
    \/ \E w \in GeoWorkers, dist \in GeoDistances : watchPosition(w, dist)
    \/ \E w \in GeoWorkers, type \in {"CHECK_IN", "CHECK_OUT"} :
          HomeShown(w) /\ startGPSAttendance(w, type)
    \/ \E w \in QRWorkers : HomeShown(w) /\ startQRAttendance(w)
    \/ \E w \in QRWorkers : closeTypeSelector(w)
    \/ \E w \in QRWorkers, type \in {"CHECK_IN", "CHECK_OUT"} :
          app[w].showTypeSelector /\ handleTypeSelection(w, type)
    \/ \E w \in QRWorkers, decodedText \in ScanTexts :
          app[w].showQR /\ handleQRScanSuccess(w, decodedText)
    \/ \E w \in QRWorkers : closeScanner(w)
    \/ \E w \in GeoWorkers : closeCamera(w)
    \/ \E w \in GeoWorkers, type \in {"CHECK_IN", "CHECK_OUT"} :
          /\ app[w].showCamera
          /\ app[w].pendingType = <<type>>
          /\ handlePhotoCaptured(w, type)
    \/ TickMs

SpecGeo == InitGeo /\ [][NextGeo]_vars

\* the record a step has written under the id of its instant
SavedNow == CHOOSE r \in Range(records') : r.id = PlainId(now)

\* C16: a record of method GPS is saved verified exactly when a distance to
\* the workshop is known and is at most the radius (the radius itself
\* included), and a record of method QR is saved verified whatever the distance
C16GeofenceVerdict ==
    [][ records' # records =>
          \E w \in GeoWorkers :
            /\ SavedNow.workerName = w
            /\ SavedNow.verificationMethod = app[w].verificationMethod
            /\ SavedNow.verificationMethod = "GPS" =>
                  (SavedNow.locationVerified <=>
                     \E d \in GeoDistances :
                        app[w].distanceToWork = <<d>> /\ d <= radiusMeters)
            /\ SavedNow.verificationMethod = "QR" => SavedNow.locationVerified
      ]_vars

\* a GPS record has been saved as verified at a distance equal to the radius
C16Witness ==
    \E i \in 1..Len(records) :
       /\ records[i].workerName = NameA
       /\ records[i].timestamp = now
       /\ records[i].verificationMethod = "GPS"
       /\ records[i].locationVerified
       /\ app[NameA].distanceToWork = <<radiusMeters>>

\* C17: a step never replaces or alters a stored attendance record: every
\* record stored before the step is stored unchanged after it
C17RecordsAppendOnly ==
    [][ \A i \in 1..Len(records) :
          \E j \in 1..Len(records') : records'[j] = records[i] ]_vars

----------------------------------------------------------------------------
\* Leave requests: workers submit them, administrators' dashboards load them
\* and approve or reject the ones they show as pending.

MaxLeaves == 2        \* leave requests stored in one behaviour
LeaveDays == {3, 4}

LeaveStatusTitle(status) ==
    IF status = "Approved" THEN "leave approved" ELSE "leave rejected"

\* `تم ${status === 'Approved' ? 'قبول' : 'رفض'} طلب الإجازة للموظف ${item.employeeName}`
LeaveStatusMessage(status, name) ==
    << IF status = "Approved" THEN "accepted" ELSE "refused",
       " the leave request of employee " >> \o name

\* storageService.saveNewLeaveRequest: the request is saved under its id, then
\* a notification with id Date.now()
saveNewLeaveRequest(request) ==
    /\ leaves' = saveDocument(leaves, request.id, request)
    /\ notifications' =
          saveNotification(notifications,
              [id |-> PlainId(now), title |-> LeaveRequestTitle,
               message |-> LeaveRequestMessage(request.employeeName),
               date |-> toLocaleDateString(now)])

\* the leave request form's handleSubmit: nothing if the start is after the
\* end; otherwise a Pending request with id Date.now() is saved
handleSubmit(workerName, startDate, endDate) ==
    /\ Len(leaves) < MaxLeaves
    /\ firestore = "up"
    /\ ~(startDate > endDate)
    /\ saveNewLeaveRequest([id |-> PlainId(now), employeeName |-> workerName,
                            startDate |-> startDate, endDate |-> endDate,
                            status |-> "Pending"])
    /\ UNCHANGED <<local, firestore, session, app, now, tz, employees, records, schedules,
                   calendarEvents, inv, hist, epoch, missingCheckoutAlert, screen>>

\* DashboardView.loadAllData: setLeaves(await getLeaveRequests())
loadAllData(s) ==
    /\ screen' = [screen EXCEPT !.leaves[s] = getLeaveRequests]
    /\ UNCHANGED <<local, firestore, session, app, now, tz, storeVars, notifications, inv, hist,
                   epoch, missingCheckoutAlert>>

\* storageService.updateLeaveStatus: the stored request with this id, if any,
\* gets the status and is saved, then a notification with id Date.now()
updateLeaveStatus(id, status) ==
    LET found == {i \in 1..Len(leaves) : leaves[i].id = id}
    IN  IF found = {}
        THEN UNCHANGED <<leaves, notifications>>
        ELSE LET item == [leaves[Min(found)] EXCEPT !.status = status]
             IN  /\ leaves' = saveDocument(leaves, id, item)
                 /\ notifications' =
                       saveNotification(notifications,
                           [id |-> PlainId(now), title |-> LeaveStatusTitle(status),
                            message |-> LeaveStatusMessage(status, item.employeeName),
                            date |-> toLocaleDateString(now)])

\* DashboardView.handleLeaveAction from a button renderLeaves shows for a
\* request that is Pending in this session's list: updateLeaveStatus, then
\* handleRefresh loads the lists again
handleLeaveAction(s, id, action) ==
    /\ firestore = "up"
    /\ \E i \in 1..Len(screen.leaves[s]) :
          /\ screen.leaves[s][i].id = id
          /\ screen.leaves[s][i].status = "Pending"
    /\ updateLeaveStatus(id, action)
    /\ screen' = [screen EXCEPT !.leaves[s] = leaves']
    /\ UNCHANGED <<local, firestore, session, app, now, tz, employees, records, schedules,
                   calendarEvents, inv, hist, epoch, missingCheckoutAlert>>

InitLeave == InitSession

NextLeave ==
    \/ \E w \in {NameA, NameC}, startDate \in LeaveDays, endDate \in LeaveDays :
          handleSubmit(w, startDate, endDate)
    \/ \E s \in AdminSessions : loadAllData(s)
    \/ \E s \in AdminSessions, action \in {"Approved", "Rejected"} :
          \E i \in 1..Len(screen.leaves[s]) :
             handleLeaveAction(s, screen.leaves[s][i].id, action)
    \/ TickMs

SpecLeave == InitLeave /\ [][NextLeave]_vars

\* C18: a step never replaces or removes a stored notification: every
\* notification stored before the step is stored unchanged after it
C18NotificationsAppendOnly ==
    [][ \A i \in 1..Len(notifications) :
          \E j \in 1..Len(notifications') : notifications'[j] = notifications[i] ]_vars

\* C19: once a leave request is Approved or Rejected, no status update moves
\* it to the other verdict
C19StatusMutatedOnce ==
    [][ \A i \in 1..Len(leaves), j \in 1..Len(leaves') :
           /\ leaves[i].status # "Pending"
           /\ leaves'[j].id = leaves[i].id
           /\ leaves'[j].status # "Pending"
           => leaves'[j].status = leaves[i].status
      ]_vars

----------------------------------------------------------------------------
\* the number of tenths a numeral of the report stands for: "0" or one
\* decimal place
NumeralTenths(numeral) ==
    IF Len(numeral) = 1 THEN numeral[1] * 10 ELSE numeral[1] * 10 + numeral[2]

\* C20: in the worker summary and in each row of the admin report the
\* overtime is max(0, totalHours - 8 * daysPresent), with daysPresent the
\* number of distinct days on which the worker has a record; it is never
\* negative, and 20 days with 170 hours give 10.
C20Overtime ==
    /\ \A v \in FreshSummaries :
           LET stats == v.summary.stats
           IN  /\ stats.overtime >= 0
               /\ stats.overtime = Max({0, stats.totalHours - 8 * stats.daysPresent})
               /\ stats.daysPresent
                    = Cardinality(DaysOf(monthlyRecordsOf(getRecords(RecordLimit),
                                                          v.workerName, now)))
    /\ \A v \in FreshReports :
           \A i \in 1..Len(v.rows) :
               LET row == v.rows[i]
                   inRange == recordsMapGet(getRecords(RecordLimit), row.name,
                                            reportStartOf(v.reportStartDate),
                                            reportEndOf(v.reportEndDate))
               IN  /\ NumeralTenths(row.overtimeHours) >= 0
                   /\ NumeralTenths(row.overtimeHours)
                        = Max({0, NumeralTenths(row.totalHours) - 8 * 10 * row.daysPresent})
                   /\ row.daysPresent = Cardinality(DaysOf(inRange))

\* C20 witness: twenty days present with 170 hours show an overtime of 10 in
\* the worker summary and in the admin report
C20Witness ==
    /\ \E v \in FreshSummaries :
           /\ v.summary.stats.daysPresent = 20
           /\ v.summary.stats.totalHours = 170
           /\ v.summary.stats.overtime = 10
    /\ \E v \in FreshReports : \E i \in 1..Len(v.rows) :
           /\ v.rows[i].daysPresent = 20
           /\ v.rows[i].totalHours = <<170, 0>>
           /\ v.rows[i].overtimeHours = <<10, 0>>

----------------------------------------------------------------------------
\* The attendance score over every pair of counts up to MaxCount.

MaxCount == 12        \* largest lateCount and daysAbsent of a score card

NextScore ==
    \E lateCount \in 0..MaxCount, daysAbsent \in 0..MaxCount :
        RenderScore(lateCount, daysAbsent)

SpecScore == InitSession /\ [][NextScore]_vars

\* C21: the attendance score is max(0, 100 - 5 * lateCount - 10 * daysAbsent),
\* lies in 0..100, and is 100 exactly when both counts are zero
C21AttendanceScore ==
    \A v \in Range(screen.score) :
        /\ v.attendanceScore = Max({0, 100 - 5 * v.lateCount - 10 * v.daysAbsent})
        /\ v.attendanceScore \in 0..100
        /\ v.attendanceScore = 100 <=> (v.lateCount = 0 /\ v.daysAbsent = 0)

\* C21 witness: a score card whose counts would take the score below zero
C21Witness ==
    \E v \in Range(screen.score) :
        /\ 5 * v.lateCount + 10 * v.daysAbsent > 100
        /\ v.attendanceScore = 0

----------------------------------------------------------------------------
\* the local days a report's range covers
ReportDays(v) ==
    toDateString(reportStartOf(v.reportStartDate))..toDateString(reportEndOf(v.reportEndDate))

\* C22: no date later than today has a row in the worker's monthly summary or
\* is counted absent in the admin report, also when the month or the range
\* extends past today; today has its row, and today is counted absent for a
\* worker without leaves and records when it is a scheduled day and no holiday.
C22FutureNeverCounted ==
    /\ \A v \in FreshSummaries :
           LET rows == v.summary.dailyReport
           IN  /\ \A i \in 1..Len(rows) : rows[i].date[2] <= LocalDay(now)
               /\ \E i \in 1..Len(rows) : rows[i].date[2] = LocalDay(now)
               /\ v.summary.stats.daysAbsent + v.summary.stats.lateCount
                    <= LocalDay(now) - MonthStartDays[getMonth(now) + 1] + 1
    /\ \A v \in FreshReports :
           \A i \in 1..Len(v.rows) :
               /\ \A d \in v.rows[i].absentDates : d <= LocalDay(now)
               /\ v.rows[i].absentDays <= Cardinality({d \in ReportDays(v) : d <= LocalDay(now)})
               /\ ( /\ LocalDay(now) \in ReportDays(v)
                    /\ ScheduledOn(LocalDay(now)) /\ ~HolidayOn(LocalDay(now))
                    /\ ~HasRecordOn(v.rows[i].name, LocalDay(now))
                    /\ \A k \in 1..Len(leaves) : leaves[k].employeeName # v.rows[i].name )
                  => LocalDay(now) \in v.rows[i].absentDates

\* C22 witness: a summary of a month that goes on after today, and a report
\* whose range ends after today and counts today, and only today, absent
C22Witness ==
    /\ \E v \in FreshSummaries :
           Len(v.summary.dailyReport) < MonthLengths[getMonth(now) + 1]
    /\ \E v \in FreshReports : \E i \in 1..Len(v.rows) :
           /\ \E d \in ReportDays(v) : d > LocalDay(now)
           /\ v.rows[i].absentDates = {LocalDay(now)}

----------------------------------------------------------------------------
\* The absence check while an administrator activates and deactivates
\* employees, also between the steps of a running check.

NextActive ==
    \/ Call("timer")
    \/ Invocation
    \/ \E i \in 1..Len(employees) : toggleEmployeeStatus(i)
    \/ Tick

InitActive ==
    /\ Init
    /\ calendarEvents = <<>>
    /\ notifications = <<>>
    /\ tz = 0

SpecActive == InitActive /\ [][NextActive]_vars

\* the absence notifications a step adds to the store
NewAbsenceNotes ==
    {n \in Range(notifications') : n.title = AbsenceTitle /\ n \notin Range(notifications)}

\* the notification is an absence alert naming this employee
AlertNames(n, name) ==
    \E label \in {"extra workday"} \cup Range(WeekdayNames) :
        n.message = AbsenceMessage(name, label)

\* C23 (as stated): no step saves an absence notification for an employee whose
\* status is Inactive
C23OnlyActiveAlerted ==
    [][ \A n \in NewAbsenceNotes :
          ~\E i \in 1..Len(employees) :
              employees[i].status = "Inactive" /\ AlertNames(n, employees[i].name) ]_vars

\* C23 (amended): the list an invocation keeps from its read of the employees
\* holds exactly the employees stored as Active at that read, and every
\* absence notification saved is for an employee of the list of a running
\* invocation
C23ActiveAtRead ==
    [][ /\ \A p \in Procs :
             (inv[p].pc = "employees" /\ inv'[p].pc = "records")
             => /\ \A e \in Range(inv'[p].employees) : e.status = "Active"
                /\ \A i \in 1..Len(getEmployees) :
                      getEmployees[i] \in Range(inv'[p].employees)
                      <=> getEmployees[i].status = "Active"
        /\ \A n \in NewAbsenceNotes :
             \E p \in Procs : \E e \in Range(inv[p].employees) :
                 e.status = "Active" /\ AlertNames(n, e.name)
      ]_vars

\* C23 witness: an invocation that read a list with an Inactive employee has
\* saved an alert, and none of the stored alerts names that employee
C23Witness ==
    \E k \in 1..Len(hist) :
        /\ hist[k].saved # <<>>
        /\ hist[k].epochAtCall = epoch
        /\ \E i \in 1..Len(employees) :
              /\ employees[i].status = "Inactive"
              /\ \A j \in 1..Len(notifications) :
                    ~AlertNames(notifications[j], employees[i].name)

----------------------------------------------------------------------------
\* no stored schedule lists the day's weekday: none is stored at all, or the
\* day lies outside the days of every one that is
NoScheduleLists(day) ==
    \A i \in 1..Len(schedules) : WeekdayNames[((day + 4) % 7) + 1] \notin schedules[i].days

\* the employees an invocation has saved an absence alert for
AlertedBy(h) ==
    {name \in WorkerNames \cup {DefaultEmployees[1].name} :
        \E i \in 1..Len(h.saved) : AlertNames(h.saved[i], name)}

\* C24 (as stated): on a day that is no holiday and that no schedule lists,
\* because none is configured or because the day is an EXTRA_WORKDAY outside
\* every schedule's days, the pass works with the single shift start 08:00: an
\* invocation called after 08:30 alerts the employees who are Active, have no
\* CHECK_IN today and no Approved leave, and one that ends by 08:30 alerts
\* nobody.
C24DefaultShift ==
    \A k \in 1..Len(hist) :
        ( /\ ~hist[k].rejected
          /\ hist[k].epochAtCall = hist[k].epochAtEnd
          /\ hist[k].calledAfter = 0 /\ ~hist[k].overlapped
          /\ notifications = hist[k].saved
          /\ leaves = <<>>
          /\ ~HolidayOn(hist[k].todayStr)
          /\ NoScheduleLists(hist[k].todayStr)
          /\ (schedules = <<>> \/ ExtraWorkdayOn(hist[k].todayStr)) )
        => /\ hist[k].minutesAtCall > 8 * 60 + 30 => AlertedBy(hist[k]) = hist[k].owedAtCall
           /\ (hist[k].graceTested /\ hist[k].currentMinutes <= 8 * 60 + 30)
                 => hist[k].saved = <<>>

----------------------------------------------------------------------------
\* C25: the number an invocation returns is the number of notifications it
\* saved, 0 when it skipped for a holiday, a day that is no workday or the
\* grace period; and every absence notification in the store was saved, and
\* counted, by an invocation.
C25ReturnedCountExact ==
    /\ \A k \in 1..Len(hist) :
           ~hist[k].rejected
           => /\ hist[k].ret = Len(hist[k].saved)
              /\ ~hist[k].graceTested => hist[k].ret = 0
              /\ (hist[k].graceTested
                   /\ Len(pastShiftsOf(hist[k].activeShiftStartTimes,
                                       hist[k].currentMinutes)) = 0) => hist[k].ret = 0
    /\ \A p \in Procs : Running(p) => inv[p].alertsGenerated = Len(inv[p].saved)
    /\ \A i \in 1..Len(notifications) :
           notifications[i].title = AbsenceTitle
           => \/ \E k \in 1..Len(hist) : notifications[i] \in Range(hist[k].saved)
              \/ \E p \in Procs : notifications[i] \in Range(inv[p].saved)

\* C25 witness: an invocation that saved two alerts and returned 2, after one
\* that skipped and returned 0
C25Witness ==
    \E k, m \in 1..Len(hist) :
        /\ hist[k].ret = 0 /\ hist[k].saved = <<>>
        /\ hist[m].ret = 2 /\ Len(hist[m].saved) = 2
        /\ \A i \in 1..2 : hist[m].saved[i] \in Range(notifications)

----------------------------------------------------------------------------
\* the day classifier's verdict for the worker and the day of instant t, from
\* the store as it is
ClassifierVerdict(name, t) ==
    dailyRow(monthlyRecordsOf(getRecords(RecordLimit), name, t), name,
             setHoursMidnight(t), getWorkSchedules, getCalendarEvents,
             getLeaveRequests).status

\* C26 (as stated): an invocation of the pass saves an absence alert for today
\* only for an employee whom the day classifier gives the verdict ABSENT for
\* today; an employee with any record today, be it only a CHECK_OUT, is not
\* alerted.
C26AlertingAgreesWithClassifier ==
    \A k \in 1..Len(hist) :
        ( /\ hist[k].epochAtCall = epoch
          /\ hist[k].todayStr = LocalDay(now) )
        => \A name \in AlertedBy(hist[k]) :
              /\ ~HasRecordOn(name, LocalDay(now))
              /\ ClassifierVerdict(name, now) = "ABSENT"

----------------------------------------------------------------------------
(* Check-ins half way between two shift starts *)

\* one schedule for Sunday whose shift list has 08:00 and 08:40 in either
\* order, and one with a third shift at 09:20
TieScheduleLists ==
    { << Sch(1, {"Sun"}, << <<8, 0>>, <<8, 40>> >>) >>,
      << Sch(1, {"Sun"}, << <<8, 40>>, <<8, 0>> >>) >>,
      << Sch(1, {"Sun"}, << <<8, 0>>, <<8, 40>>, <<9, 20>> >>) >> }

\* 08:20 is 20 minutes from 08:00 and from 08:40; 09:00 from 08:40 and 09:20
TieMinutes == {8 * 60 + 15, 8 * 60 + 20, 8 * 60 + 21, 8 * 60 + 56, 9 * 60}

InitTies ==
    /\ tz \in TimeZones
    /\ now \in {LocalInstant(3, m) : m \in TieMinutes}
    /\ employees = << Emp(1, NameA, "Active"), Emp(2, NameC, "Active") >>
    /\ calendarEvents = <<>>
    /\ leaves = <<>>
    /\ records = <<>>
    /\ notifications = <<>>
    /\ schedules \in TieScheduleLists
    /\ inv = [p \in Procs |-> IdleLocals]
    /\ hist = <<>>
    /\ epoch = 0
    /\ missingCheckoutAlert = [w \in WorkerNames |-> <<>>]
    /\ screen = NoScreen
    /\ firestore = "up"
    /\ session = NoSession
    /\ app = [w \in WorkerNames |-> NoAttendance]
    /\ local = NoLocal

NextTies ==
    \/ \E type \in {"CHECK_IN", "CHECK_OUT"} : handlePhotoCaptured(NameA, type)
    \/ RenderUserDashboard(NameA)

SpecTies == InitTies /\ [][NextTies]_vars

\* the shift starts, in list order, of the first schedule that lists the day
FirstScheduleStarts(day) ==
    LET name == WeekdayNames[((day + 4) % 7) + 1]
        listing == {i \in 1..Len(getWorkSchedules) : name \in getWorkSchedules[i].days}
        schedule == getWorkSchedules[Min(listing)]
    IN  [i \in 1..Len(schedule.shifts) |-> timeToMin(schedule.shifts[i].start)]

\* position i holds the start the lateness check uses for minute m: no start
\* is strictly closer, and no earlier position is as close
UsedPosition(starts, m, i) ==
    /\ \A j \in 1..Len(starts) : Abs(m - starts[i]) <= Abs(m - starts[j])
    /\ \A j \in 1..(i - 1) : Abs(m - starts[j]) > Abs(m - starts[i])

\* minute m is equally distant from two starts of the list that give
\* different lateness verdicts, and no start is closer
TiedAt(starts, m) ==
    \E i, j \in 1..Len(starts) :
        /\ i < j
        /\ Abs(m - starts[i]) = Abs(m - starts[j])
        /\ \A k \in 1..Len(starts) : Abs(m - starts[i]) <= Abs(m - starts[k])
        /\ (m > starts[i] + LateGraceMinutes) # (m > starts[j] + LateGraceMinutes)

\* C27: when a check-in is equally distant from two shift starts the lateness
\* check uses the one that comes first in the shift list: the day is LATE iff
\* the check-in is more than 15 minutes after the start at the first position
\* of least distance, a later start replacing an earlier one only when it is
\* strictly closer.
C27ClosestShiftTieBreak ==
    \A v \in FreshSummaries :
        \A i \in 1..Len(v.summary.dailyReport) :
            LET row == v.summary.dailyReport[i]
                day == row.date[2]
            IN  \A m \in FirstCheckInMinutes(v.workerName, day) :
                    (ScheduledOn(day) /\ ~HolidayOn(day))
                    => LET starts == FirstScheduleStarts(day)
                       IN  /\ row.status \in {"LATE", "PRESENT"}
                           /\ row.status = "LATE"
                                <=> \E p \in 1..Len(starts) :
                                       /\ UsedPosition(starts, m, p)
                                       /\ m > starts[p] + LateGraceMinutes

\* C27 witness: summaries are shown for a check-in at 08:20 with the shift
\* list 08:00, 08:40 (LATE, by 08:00) and with the list 08:40, 08:00 (PRESENT)
C27Witness ==
    \E v \in FreshSummaries :
        \E i \in 1..Len(v.summary.dailyReport) :
            LET row == v.summary.dailyReport[i]
                starts == FirstScheduleStarts(row.date[2])
            IN  /\ FirstCheckInMinutes(v.workerName, row.date[2]) = {8 * 60 + 20}
                /\ TiedAt(starts, 8 * 60 + 20)
                /\ starts[1] = 8 * 60
                /\ row.status = "LATE"

----------------------------------------------------------------------------
(* The QR flow: type selector, scanner, camera *)

----------------------------------------------------------------------------
\* the dates from reportStartDate to reportEndDate that the worker's summary
\* marks ABSENT
AbsentInSummary(u, reportStartDate, reportEndDate) ==
    {u.summary.dailyReport[i].date[2] :
        i \in {j \in 1..Len(u.summary.dailyReport) :
                  /\ u.summary.dailyReport[j].status = "ABSENT"
                  /\ u.summary.dailyReport[j].date[2] \in reportStartDate..reportEndDate}}

\* C29 (as stated): for the same worker, the same date range up to today and
\* the same schedules, calendar events, leaves and records, the admin report's
\* absentDays equals the number of dates of the range that the worker's day
\* classifier marks ABSENT.
C29ReportAgreesWithSummary ==
    \A v \in FreshReports :
        \A u \in FreshSummaries :
            \A i \in 1..Len(v.rows) :
                v.rows[i].name = u.workerName
                => v.rows[i].absentDays
                     = Cardinality(AbsentInSummary(u, v.reportStartDate, v.reportEndDate))

----------------------------------------------------------------------------
(* Two saveDocument calls on one localStorage collection *)

MaxDocId == 3

\* a document of the collection: its id and who wrote it
LocalDoc(docId, by) == [id |-> docId, by |-> by]

\* nothing stored under the key, or documents 1 and 2
LocalStores == { <<>>, << << LocalDoc(1, "stored") >> >>,
                 << << LocalDoc(1, "stored"), LocalDoc(2, "stored") >> >> }

InitLocal ==
    /\ tz = 0
    /\ now = LocalInstant(3, 8 * 60 + 30)
    /\ employees = << Emp(1, NameA, "Active"), Emp(2, NameC, "Active") >>
    /\ calendarEvents = <<>>
    /\ leaves = <<>>
    /\ records = <<>>
    /\ notifications = <<>>
    /\ schedules = <<>>
    /\ inv = [p \in Procs |-> IdleLocals]
    /\ hist = <<>>
    /\ epoch = 0
    /\ missingCheckoutAlert = [w \in WorkerNames |-> <<>>]
    /\ screen = NoScreen
    /\ firestore = "up"
    /\ session = NoSession
    /\ app = [w \in WorkerNames |-> NoAttendance]
    /\ \E s \in LocalStores :
          local = [NoLocal EXCEPT !.storage = s,
                                  !.initial = localGetFromStorage(s, <<>>)]

NextLocal ==
    \/ \E c \in LocalCalls, docId \in 1..MaxDocId : localSaveStart(c, docId, LocalDoc(docId, c))
    \/ \E c \in LocalCalls : localSaveFinish(c)

SpecLocal == InitLocal /\ [][NextLocal]_vars

StoredList == localGetFromStorage(local.storage, <<>>)

\* C30 (as stated): when two saveDocument calls with different ids on the same
\* collection are both in progress at one time and both have completed, both
\* documents are in the collection and every document with another id is
\* unchanged; a call with an id already present overwrites exactly that
\* document.
C30NoLostWrites ==
    \A c, d \in LocalCalls :
        ( /\ c # d
          /\ local.calls[c].pc = "done" /\ local.calls[d].pc = "done"
          /\ c \in local.calls[d].overlaps
          /\ local.calls[c].docId # local.calls[d].docId )
        => /\ local.calls[c].data \in Range(StoredList)
           /\ local.calls[d].data \in Range(StoredList)
           /\ \A i \in 1..Len(local.initial) :
                 local.initial[i].id \notin {local.calls[c].docId, local.calls[d].docId}
                 => local.initial[i] \in Range(StoredList)
           /\ \A i, j \in 1..Len(StoredList) :
                 StoredList[i].id = StoredList[j].id => i = j
====
